---- MODULE Spec2Model ----
(***************************************************************************)
(* cpuprofile-to-md: the profile normalizer (src/src/parser.ts) and the    *)
(* analysis engine (src/src/analyzer.ts) as a state machine.               *)
(*                                                                         *)
(* A conversion is  raw input --parseProfile--> canonical profile          *)
(* --analyzeProfile--> AnalysisResult.  Times are the integer time deltas  *)
(* of the profile; a percentage x / totalTime * 100 is kept as the exact   *)
(* fraction <<num, den>> in lowest terms, so the model leaves out the      *)
(* rounding of IEEE doubles and nothing else of the arithmetic.            *)
(***************************************************************************)
EXTENDS Integers, Sequences, FiniteSets, TLC

(***************************************************************************)
(* Bounds of the model.                                                    *)
(***************************************************************************)
MaxNodes == 3
MaxSamples == 2
MaxDelta == 2
MaxEvents == 3
MaxCalls == 2

(***************************************************************************)
(* Generic helpers.                                                        *)
(***************************************************************************)
Range(s) == {s[i] : i \in 1..Len(s)}

Min(a, b) == IF a <= b THEN a ELSE b

RECURSIVE SumSeq(_)
SumSeq(s) == IF s = <<>> THEN 0 ELSE Head(s) + SumSeq(Tail(s))

RECURSIVE GCD(_, _)
GCD(a, b) == IF b = 0 THEN a ELSE GCD(b, a % b)

\* Array.prototype.slice(0, n) for n >= 0
Slice0(s, n) == SubSeq(s, 1, Min(n, Len(s)))

\* String.prototype.startsWith and String.prototype.includes
StartsWith(str, prefix) ==
    Len(str) >= Len(prefix) /\ SubSeq(str, 1, Len(prefix)) = prefix

Includes(str, part) ==
    \E i \in 1..(Len(str) - Len(part) + 1) : SubSeq(str, i, i + Len(part) - 1) = part

\* Map.get(k) || 0 on a Map<number, number>
MapGet0(m, k) == IF k \in DOMAIN m THEN m[k] ELSE 0

\* Map.set(k, v)
MapSet(m, k, v) == [x \in (DOMAIN m) \cup {k} |-> IF x = k THEN v ELSE m[x]]

\* Set.add(x) on a Set that keeps insertion order; Array.from(set) is the sequence
SetAdd(s, x) == IF x \in Range(s) THEN s ELSE Append(s, x)

RECURSIVE SetAddAll(_, _)
SetAddAll(s, xs) == IF xs = <<>> THEN s ELSE SetAddAll(SetAdd(s, Head(xs)), Tail(xs))

(***************************************************************************)
(* Percentages: (x / totalTime) * 100, zero-safe, as an exact fraction.    *)
(***************************************************************************)
Frac(n, d) == LET g == GCD(IF n < 0 THEN -n ELSE n, d) IN <<n \div g, d \div g>>

PercentOf(x, totalTime) == IF totalTime > 0 THEN Frac(x * 100, totalTime) ELSE <<0, 1>>

\* a / b in IEEE arithmetic for a >= 0, b >= 0: 0 / 0 is NaN, written <<0, 0>>,
\* and a / 0 for a > 0 is Infinity, written <<1, 0>>
Divide(a, b) == IF b = 0 THEN <<IF a = 0 THEN 0 ELSE 1, 0>> ELSE Frac(a, b)

NaN == <<0, 0>>

PctAdd(p, q) == Frac(p[1] * q[2] + q[1] * p[2], p[2] * q[2])

PctGe(p, q) == p[1] * q[2] >= q[1] * p[2]

PctOfNumber(t) == <<t, 1>>

(***************************************************************************)
(* V8CpuProfileCallFrame and the function identity key.                    *)
(***************************************************************************)
FrameOf(k) ==
    [functionName |-> "fn" \o ToString(k), scriptId |-> ToString(k),
     url |-> "file:///app/m" \o ToString(k) \o ".js",
     lineNumber |-> 10 * k, columnNumber |-> k]

FunctionKey(cf) ==
    cf.functionName \o "@" \o cf.url \o ":" \o ToString(cf.lineNumber)
        \o ":" \o ToString(cf.columnNumber)

(***************************************************************************)
(* V8CpuProfileNode: parent = 0 stands for an absent parent field.         *)
(***************************************************************************)
NoParent == 0

CpuNode(id, cf, parent, children) ==
    [id |-> id, callFrame |-> cf, parent |-> parent, children |-> children]

(***************************************************************************)
(* parser.ts: linearizeHeadBasedTree.  A legacy record is                  *)
(* [callFrame, children: sequence of legacy records].  traverse takes the  *)
(* id before it descends (pre-order ids) and pushes the node after its     *)
(* children (post-order table).  The state threaded through the recursion  *)
(* is [nodes, nextId]; the result adds the id that was returned.           *)
(***************************************************************************)
\* parser.ts 101-107: node.callFrame || { functionName: node.functionName ||
\* '(unknown)', scriptId: '0', url: node.url || '', lineNumber:
\* node.lineNumber || 0, columnNumber: node.columnNumber || 0 }: an embedded
\* callFrame is taken as it is, the inline fields are read only without one
callFrameOf(node) ==
    IF "callFrame" \in DOMAIN node THEN node.callFrame
    ELSE LET orString(field, default) ==
                 IF field \in DOMAIN node /\ node[field] # "" THEN node[field] ELSE default
             orNumber(field) ==
                 IF field \in DOMAIN node THEN node[field] ELSE 0
         IN [functionName |-> orString("functionName", "(unknown)"),
             scriptId |-> "0",
             url |-> orString("url", ""),
             lineNumber |-> orNumber("lineNumber"),
             columnNumber |-> orNumber("columnNumber")]

\* parser.ts 116: node.children && Array.isArray(node.children)
recordChildren(node) == IF "children" \in DOMAIN node THEN node.children ELSE <<>>

RECURSIVE traverseHead(_, _, _)
RECURSIVE traverseHeadChildren(_, _, _, _)

traverseHeadChildren(children, parentId, st, ids) ==
    IF children = <<>> THEN [st |-> st, ids |-> ids]
    ELSE LET r == traverseHead(Head(children), parentId, st)
         IN traverseHeadChildren(Tail(children), parentId,
                                 [nodes |-> r.nodes, nextId |-> r.nextId],
                                 Append(ids, r.id))

traverseHead(node, parentId, st) ==
    LET id == st.nextId
        kids == traverseHeadChildren(recordChildren(node), id,
                                     [nodes |-> st.nodes, nextId |-> id + 1], <<>>)
        cpuNode == CpuNode(id, callFrameOf(node), parentId, kids.ids)
    IN [nodes |-> Append(kids.st.nodes, cpuNode), nextId |-> kids.st.nextId, id |-> id]

linearizeHeadBasedTree(head) ==
    traverseHead(head, NoParent, [nodes |-> <<>>, nextId |-> 1]).nodes

(***************************************************************************)
(* parser.ts: rebuildChildrenFromParent.  The Map<number, node> is the     *)
(* sequence of its values in insertion order (Map.set of a present key     *)
(* replaces the value in place).  A node of the input may come without a   *)
(* children member; every node of the output has one.                      *)
(***************************************************************************)
\* { ...node, children: c }
WithChildren(node, c) ==
    [f \in (DOMAIN node) \cup {"children"} |-> IF f = "children" THEN c ELSE node[f]]

\* node.children && node.children.length > 0
HasOwnChildren(node) == "children" \in DOMAIN node /\ Len(node.children) > 0

NodeMapHas(nm, id) == \E i \in 1..Len(nm) : nm[i].id = id

NodeMapIndex(nm, id) == CHOOSE i \in 1..Len(nm) : nm[i].id = id

NodeMapSet(nm, node) ==
    IF NodeMapHas(nm, node.id)
    THEN [nm EXCEPT ![NodeMapIndex(nm, node.id)] = node]
    ELSE Append(nm, node)

RECURSIVE rebuildPass1(_, _)
rebuildPass1(nodes, nm) ==
    IF nodes = <<>> THEN nm
    ELSE rebuildPass1(Tail(nodes),
                      NodeMapSet(nm, WithChildren(Head(nodes), <<>>)))

RECURSIVE rebuildPass2(_, _)
rebuildPass2(nodes, nm) ==
    IF nodes = <<>> THEN nm
    ELSE LET node == Head(nodes)
             nm2 == IF node.parent # NoParent /\ NodeMapHas(nm, node.parent)
                    THEN LET p == NodeMapIndex(nm, node.parent)
                         IN IF node.id \in Range(nm[p].children) THEN nm
                            ELSE [nm EXCEPT ![p].children = Append(@, node.id)]
                    ELSE nm
         IN rebuildPass2(Tail(nodes), nm2)

\* the third pass replacing the rebuilt list by the node's own list
RECURSIVE rebuildPass3_Overwrite(_, _)
rebuildPass3_Overwrite(nodes, nm) ==
    IF nodes = <<>> THEN nm
    ELSE LET node == Head(nodes)
             i == NodeMapIndex(nm, node.id)
             nm2 == IF HasOwnChildren(node)
                    THEN [nm EXCEPT ![i].children = SetAddAll(<<>>, node.children)]
                    ELSE nm
         IN rebuildPass3_Overwrite(Tail(nodes), nm2)

RECURSIVE rebuildPass3(_, _)
rebuildPass3(nodes, nm) ==
    IF nodes = <<>> THEN nm
    ELSE LET node == Head(nodes)
             i == NodeMapIndex(nm, node.id)
             nm2 == IF HasOwnChildren(node)
                    THEN [nm EXCEPT ![i].children = SetAddAll(SetAddAll(<<>>, @), node.children)]
                    ELSE nm
         IN rebuildPass3(Tail(nodes), nm2)

rebuildChildrenFromParent(nodes) ==
    rebuildPass3(nodes, rebuildPass2(nodes, rebuildPass1(nodes, <<>>)))

(***************************************************************************)
(* JSON values as JSON.parse returns them, tagged with their JavaScript    *)
(* type: an object is [type |-> "object", fields |-> its members], an      *)
(* array is [type |-> "array", items |-> its elements].  The elements of   *)
(* the node table and of the sample arrays and the members of a legacy     *)
(* record are read by typed code (types.ts); they are kept as the plain    *)
(* records, sequences and numbers of those types.                          *)
(***************************************************************************)
Undefined == [type |-> "undefined"]

Null == [type |-> "null"]

Num(n) == [type |-> "number", value |-> n]

Str(s) == [type |-> "string", value |-> s]

Bool(b) == [type |-> "boolean", value |-> b]

Arr(items) == [type |-> "array", items |-> items]

Obj(fields) == [type |-> "object", fields |-> fields]

IsNullish(v) == v.type \in {"undefined", "null"}

\* ToBoolean(v), as in !v, v || w and if (v)
Truthy(v) ==
    CASE v.type \in {"undefined", "null"} -> FALSE
      [] v.type = "number" -> v.value # 0
      [] v.type = "string" -> v.value # ""
      [] v.type = "boolean" -> v.value
      [] OTHER -> TRUE

IsArray(v) == v.type = "array"

\* v.name for a v that is not null or undefined: undefined when v has no such member
Get(v, name) ==
    IF v.type = "object" /\ name \in DOMAIN v.fields THEN v.fields[name] ELSE Undefined

\* v?.name
OptGet(v, name) == IF IsNullish(v) THEN Undefined ELSE Get(v, name)

\* v || 0 for a numeric member
OrZero(v) == IF v.type = "number" THEN v.value ELSE 0

(***************************************************************************)
(* Exceptions.  parseProfile throws Error objects with a message; reading  *)
(* a member of null or undefined, or calling a member that is not a        *)
(* function, throws a TypeError of the runtime.                            *)
(***************************************************************************)
ThrowError(name, message) == [thrown |-> TRUE, name |-> name, message |-> message]

TypeErrorThrown == ThrowError("TypeError", "")

Returned(v) == [thrown |-> FALSE, value |-> v]

\* the text handed to parseProfile: text that JSON.parse accepts, with the value
\* it stands for, or text that it rejects
JsonText(v) == [valid |-> TRUE, value |-> v]

NotJson == [valid |-> FALSE, value |-> Undefined]

\* parser.ts 36-40: JSON.parse in its try block
JSONParse(input) ==
    IF input.valid THEN Returned(input.value)
    ELSE ThrowError("Error", "Invalid JSON in profile: ")

(***************************************************************************)
(* parser.ts 42-59: a Chromium trace container is replaced by the profile  *)
(* embedded in its first CpuProfile event.                                 *)
(***************************************************************************)
\* event.args?.data?.cpuProfile
embeddedCpuProfile(event) == OptGet(OptGet(Get(event, "args"), "data"), "cpuProfile")

\* event.name === 'CpuProfile' || event.args?.data?.cpuProfile
isCpuProfileEvent(event) ==
    LET name == Get(event, "name")
    IN \/ (name.type = "string" /\ name.value = "CpuProfile")
       \/ Truthy(embeddedCpuProfile(event))

\* Array.prototype.find: the last event that matches instead of the first
RECURSIVE findCpuProfileEvent_Last(_)
findCpuProfileEvent_Last(events) ==
    IF events = <<>> THEN Returned(Undefined)
    ELSE LET event == events[Len(events)]
         IN IF IsNullish(event) THEN TypeErrorThrown
            ELSE IF isCpuProfileEvent(event) THEN Returned(event)
            ELSE findCpuProfileEvent_Last(SubSeq(events, 1, Len(events) - 1))

\* Array.prototype.find with the predicate above: the first event that matches,
\* undefined when none does; the predicate throws on a null event
RECURSIVE findCpuProfileEvent(_)
findCpuProfileEvent(events) ==
    IF events = <<>> THEN Returned(Undefined)
    ELSE IF IsNullish(Head(events)) THEN TypeErrorThrown
    ELSE IF isCpuProfileEvent(Head(events)) THEN Returned(Head(events))
    ELSE findCpuProfileEvent(Tail(events))

\* cpuProfileEvent.args?.data?.cpuProfile || cpuProfileEvent.args?.data
embeddedProfile(event) ==
    LET c == embeddedCpuProfile(event)
    IN IF Truthy(c) THEN c ELSE OptGet(Get(event, "args"), "data")

\* if (cpuProfileEvent) parsed = ...
substituteEmbedded(parsed, found) ==
    IF found.thrown THEN found
    ELSE IF Truthy(found.value) THEN Returned(embeddedProfile(found.value))
    ELSE Returned(parsed)

unwrapTraceEvents(parsed) ==
    IF IsArray(parsed) THEN substituteEmbedded(parsed, findCpuProfileEvent(parsed.items))
    ELSE IF IsNullish(parsed) THEN TypeErrorThrown
    ELSE LET traceEvents == Get(parsed, "traceEvents")
         IN IF ~Truthy(traceEvents) THEN Returned(parsed)
            ELSE IF ~IsArray(traceEvents) THEN TypeErrorThrown
            ELSE substituteEmbedded(parsed, findCpuProfileEvent(traceEvents.items))

(***************************************************************************)
(* parser.ts 61-86: the legacy record is flattened, the three sequences    *)
(* are validated in the order nodes, samples, timeDeltas, the children     *)
(* arrays are rebuilt and the canonical profile is returned.               *)
(***************************************************************************)
\* parser.ts 62-64: the node table of the working value
nodesOf(parsed) ==
    IF Truthy(Get(parsed, "head")) /\ ~Truthy(Get(parsed, "nodes"))
    THEN Arr(linearizeHeadBasedTree(Get(parsed, "head").fields))
    ELSE Get(parsed, "nodes")

MissingOrInvalid(v) == ~Truthy(v) \/ ~IsArray(v)

MalformedProfile(field) ==
    ThrowError("Error", "Invalid profile: missing or invalid \"" \o field \o "\" array")

\* validateAndBuild checking samples before nodes
validateAndBuild_SamplesFirst(parsed) ==
    IF IsNullish(parsed) THEN TypeErrorThrown
    ELSE LET nodes == nodesOf(parsed)
             samples == Get(parsed, "samples")
             timeDeltas == Get(parsed, "timeDeltas")
         IN IF MissingOrInvalid(samples) THEN MalformedProfile("samples")
            ELSE IF MissingOrInvalid(nodes) THEN MalformedProfile("nodes")
            ELSE IF MissingOrInvalid(timeDeltas) THEN MalformedProfile("timeDeltas")
            ELSE [thrown |-> FALSE,
                  profile |-> [startTime |-> OrZero(Get(parsed, "startTime")),
                               endTime |-> OrZero(Get(parsed, "endTime")),
                               nodes |-> rebuildChildrenFromParent(nodes.items),
                               samples |-> samples.items,
                               timeDeltas |-> timeDeltas.items]]

validateAndBuild(parsed) ==
    IF IsNullish(parsed) THEN TypeErrorThrown
    ELSE LET nodes == nodesOf(parsed)
             samples == Get(parsed, "samples")
             timeDeltas == Get(parsed, "timeDeltas")
         IN IF MissingOrInvalid(nodes) THEN MalformedProfile("nodes")
            ELSE IF MissingOrInvalid(samples) THEN MalformedProfile("samples")
            ELSE IF MissingOrInvalid(timeDeltas) THEN MalformedProfile("timeDeltas")
            ELSE [thrown |-> FALSE,
                  profile |-> [startTime |-> OrZero(Get(parsed, "startTime")),
                               endTime |-> OrZero(Get(parsed, "endTime")),
                               nodes |-> rebuildChildrenFromParent(nodes.items),
                               samples |-> samples.items,
                               timeDeltas |-> timeDeltas.items]]

(***************************************************************************)
(* parser.ts: parseProfile, from the JSON text on (reading the file and    *)
(* gunzip come before and are not modelled).  It returns                   *)
(* [thrown |-> FALSE, profile |-> canonical profile] or the exception that *)
(* escapes.                                                                *)
(***************************************************************************)
parseProfile(input) ==
    LET json == JSONParse(input)
    IN IF json.thrown THEN json
       ELSE LET unwrapped == unwrapTraceEvents(json.value)
            IN IF unwrapped.thrown THEN unwrapped
               ELSE validateAndBuild(unwrapped.value)

(***************************************************************************)
(* Array.prototype.sort.  before[i][j] says that the comparator puts s[i]   *)
(* before s[j]; the sort is stable, so elements that compare equal keep    *)
(* their order.                                                            *)
(***************************************************************************)
StableSort(s, before) ==
    LET n == Len(s)
        rank(i) == Cardinality({j \in 1..n : \/ before[j][i]
                                             \/ (~before[i][j] /\ j < i)}) + 1
    IN [p \in 1..n |-> s[CHOOSE i \in 1..n : rank(i) = p]]

(***************************************************************************)
(* analyzer.ts: analyzeProfile, lines 28-51: node map, self time and hit   *)
(* counts from the samples, total time.                                    *)
(***************************************************************************)
RECURSIVE buildNodeMap(_, _)
buildNodeMap(nodes, nm) ==
    IF nodes = <<>> THEN nm ELSE buildNodeMap(Tail(nodes), NodeMapSet(nm, Head(nodes)))

NodeMapGet(nm, id) == nm[NodeMapIndex(nm, id)]

\* computeSelfTimeMap with the accumulation lost: a sample overwrites the entry
RECURSIVE computeSelfTimeMap_Overwrite(_, _, _, _)
computeSelfTimeMap_Overwrite(samples, timeDeltas, i, m) ==
    IF i > Len(samples) THEN m
    ELSE computeSelfTimeMap_Overwrite(samples, timeDeltas, i + 1,
                                      MapSet(m, samples[i], timeDeltas[i]))

RECURSIVE computeSelfTimeMap(_, _, _, _)
computeSelfTimeMap(samples, timeDeltas, i, m) ==
    IF i > Len(samples) THEN m
    ELSE computeSelfTimeMap(samples, timeDeltas, i + 1,
                            MapSet(m, samples[i], MapGet0(m, samples[i]) + timeDeltas[i]))

RECURSIVE computeHitCountMap(_, _, _)
computeHitCountMap(samples, i, m) ==
    IF i > Len(samples) THEN m
    ELSE computeHitCountMap(samples, i + 1,
                            MapSet(m, samples[i], MapGet0(m, samples[i]) + 1))

\* the total time without the first delta, the offset of the first sample
\* from the start of the profile
computeProfileTotalTime_SkipFirst(timeDeltas) ==
    IF timeDeltas = <<>> THEN 0 ELSE SumSeq(Tail(timeDeltas))

computeProfileTotalTime(timeDeltas) == SumSeq(timeDeltas)

(***************************************************************************)
(* analyzer.ts: computeTotalTime.  The memo state [visited, totalTimeMap]  *)
(* is threaded through the depth-first recursion; val is the return value. *)
(* computed lists the node ids in the order in which totalTimeMap.set was  *)
(* called.                                                                 *)
(***************************************************************************)
RECURSIVE computeNodeTotalTime(_, _, _, _)
RECURSIVE computeChildrenTotalTime(_, _, _, _, _)

computeChildrenTotalTime(children, total, st, nm, selfTimeMap) ==
    IF children = <<>> THEN [val |-> total, visited |-> st.visited, totalTimeMap |-> st.totalTimeMap,
          computed |-> st.computed]
    ELSE LET r == computeNodeTotalTime(Head(children), st, nm, selfTimeMap)
         IN computeChildrenTotalTime(Tail(children), total + r.val,
                                     [visited |-> r.visited, totalTimeMap |-> r.totalTimeMap,
                                      computed |-> r.computed],
                                     nm, selfTimeMap)

\* computeNodeTotalTime with the sum started at 0 instead of the node's self time
computeNodeTotalTime_NoSelf(nodeId, st, nm, selfTimeMap) ==
    IF nodeId \in st.visited
    THEN [val |-> MapGet0(st.totalTimeMap, nodeId),
          visited |-> st.visited, totalTimeMap |-> st.totalTimeMap,
          computed |-> st.computed]
    ELSE LET st1 == [visited |-> st.visited \cup {nodeId}, totalTimeMap |-> st.totalTimeMap,
                     computed |-> st.computed]
         IN IF ~NodeMapHas(nm, nodeId)
            THEN [val |-> 0, visited |-> st1.visited, totalTimeMap |-> st1.totalTimeMap,
                  computed |-> st1.computed]
            ELSE LET r == computeChildrenTotalTime(NodeMapGet(nm, nodeId).children, 0,
                                                   st1, nm, selfTimeMap)
                 IN [val |-> r.val, visited |-> r.visited,
                     totalTimeMap |-> MapSet(r.totalTimeMap, nodeId, r.val),
                     computed |-> Append(r.computed, nodeId)]

\* computeNodeTotalTime returning 0 for a node that was visited before, instead
\* of the total it has in the map
computeNodeTotalTime_ZeroWhenVisited(nodeId, st, nm, selfTimeMap) ==
    IF nodeId \in st.visited
    THEN [val |-> 0,
          visited |-> st.visited, totalTimeMap |-> st.totalTimeMap,
          computed |-> st.computed]
    ELSE LET st1 == [visited |-> st.visited \cup {nodeId}, totalTimeMap |-> st.totalTimeMap,
                     computed |-> st.computed]
         IN IF ~NodeMapHas(nm, nodeId)
            THEN [val |-> 0, visited |-> st1.visited, totalTimeMap |-> st1.totalTimeMap,
                  computed |-> st1.computed]
            ELSE LET r == computeChildrenTotalTime(NodeMapGet(nm, nodeId).children,
                                                   MapGet0(selfTimeMap, nodeId),
                                                   st1, nm, selfTimeMap)
                 IN [val |-> r.val, visited |-> r.visited,
                     totalTimeMap |-> MapSet(r.totalTimeMap, nodeId, r.val),
                     computed |-> Append(r.computed, nodeId)]

computeNodeTotalTime(nodeId, st, nm, selfTimeMap) ==
    IF nodeId \in st.visited
    THEN [val |-> MapGet0(st.totalTimeMap, nodeId),
          visited |-> st.visited, totalTimeMap |-> st.totalTimeMap,
          computed |-> st.computed]
    ELSE LET st1 == [visited |-> st.visited \cup {nodeId}, totalTimeMap |-> st.totalTimeMap,
                     computed |-> st.computed]
         IN IF ~NodeMapHas(nm, nodeId)
            THEN [val |-> 0, visited |-> st1.visited, totalTimeMap |-> st1.totalTimeMap,
                  computed |-> st1.computed]
            ELSE LET r == computeChildrenTotalTime(NodeMapGet(nm, nodeId).children,
                                                   MapGet0(selfTimeMap, nodeId),
                                                   st1, nm, selfTimeMap)
                 IN [val |-> r.val, visited |-> r.visited,
                     totalTimeMap |-> MapSet(r.totalTimeMap, nodeId, r.val),
                     computed |-> Append(r.computed, nodeId)]

RECURSIVE computeTotalTimeLoop(_, _, _, _)
computeTotalTimeLoop(nodes, st, nm, selfTimeMap) ==
    IF nodes = <<>> THEN st
    ELSE LET r == computeNodeTotalTime(Head(nodes).id, st, nm, selfTimeMap)
         IN computeTotalTimeLoop(Tail(nodes),
                                 [visited |-> r.visited, totalTimeMap |-> r.totalTimeMap,
                                      computed |-> r.computed],
                                 nm, selfTimeMap)

computeTotalTime(nodes, nm, selfTimeMap) ==
    computeTotalTimeLoop(nodes, [visited |-> {}, totalTimeMap |-> <<>>, computed |-> <<>>],
                         nm, selfTimeMap).totalTimeMap

\* the node ids in the order of the calls of totalTimeMap.set (line 121)
totalTimeComputations(nodes, nm, selfTimeMap) ==
    computeTotalTimeLoop(nodes, [visited |-> {}, totalTimeMap |-> <<>>, computed |-> <<>>],
                         nm, selfTimeMap).computed

(***************************************************************************)
(* analyzer.ts: aggregateFunctionStats.  The Map<string, FunctionStats> is *)
(* the sequence of its values in insertion order; callers and callees are  *)
(* Sets in insertion order.                                                *)
(***************************************************************************)
StatsHas(sm, key) == \E i \in 1..Len(sm) : sm[i].key = key

StatsIndex(sm, key) == CHOOSE i \in 1..Len(sm) : sm[i].key = key

NewStats(key, cf) ==
    [key |-> key, name |-> cf.functionName, url |-> cf.url,
     line |-> cf.lineNumber, column |-> cf.columnNumber,
     selfTime |-> 0, totalTime |-> 0,
     selfPercent |-> <<0, 1>>, totalPercent |-> <<0, 1>>,
     hitCount |-> 0, callers |-> <<>>, callees |-> <<>>]

RECURSIVE childKeys(_, _)
childKeys(children, nm) ==
    IF children = <<>> THEN <<>>
    ELSE (IF NodeMapHas(nm, Head(children))
          THEN <<FunctionKey(NodeMapGet(nm, Head(children)).callFrame)>>
          ELSE <<>>) \o childKeys(Tail(children), nm)

\* addNodeToStats with the total time taken from the last node of the function
\* instead of summed over its nodes
addNodeToStats_LastNode(sm, node, selfTimeMap, totalTimeMap, hitCountMap, nm) ==
    LET key == FunctionKey(node.callFrame)
        sm1 == IF StatsHas(sm, key) THEN sm ELSE Append(sm, NewStats(key, node.callFrame))
        i == StatsIndex(sm1, key)
        old == sm1[i]
        callers1 == IF node.parent # NoParent /\ NodeMapHas(nm, node.parent)
                    THEN SetAdd(old.callers, FunctionKey(NodeMapGet(nm, node.parent).callFrame))
                    ELSE old.callers
        callees1 == SetAddAll(old.callees, childKeys(node.children, nm))
    IN [sm1 EXCEPT ![i] = [old EXCEPT !.selfTime = @ + MapGet0(selfTimeMap, node.id),
                                      !.totalTime = MapGet0(totalTimeMap, node.id),
                                      !.hitCount = @ + MapGet0(hitCountMap, node.id),
                                      !.callers = callers1,
                                      !.callees = callees1]]

\* addNodeToStats with the hit count taken from the node's declared hitCount
\* field instead of the samples
addNodeToStats_DeclaredHits(sm, node, selfTimeMap, totalTimeMap, hitCountMap, nm) ==
    LET key == FunctionKey(node.callFrame)
        sm1 == IF StatsHas(sm, key) THEN sm ELSE Append(sm, NewStats(key, node.callFrame))
        i == StatsIndex(sm1, key)
        old == sm1[i]
        callers1 == IF node.parent # NoParent /\ NodeMapHas(nm, node.parent)
                    THEN SetAdd(old.callers, FunctionKey(NodeMapGet(nm, node.parent).callFrame))
                    ELSE old.callers
        callees1 == SetAddAll(old.callees, childKeys(node.children, nm))
        declared == IF "hitCount" \in DOMAIN node THEN node.hitCount ELSE 0
    IN [sm1 EXCEPT ![i] = [old EXCEPT !.selfTime = @ + MapGet0(selfTimeMap, node.id),
                                      !.totalTime = @ + MapGet0(totalTimeMap, node.id),
                                      !.hitCount = @ + declared,
                                      !.callers = callers1,
                                      !.callees = callees1]]

addNodeToStats(sm, node, selfTimeMap, totalTimeMap, hitCountMap, nm) ==
    LET key == FunctionKey(node.callFrame)
        sm1 == IF StatsHas(sm, key) THEN sm ELSE Append(sm, NewStats(key, node.callFrame))
        i == StatsIndex(sm1, key)
        old == sm1[i]
        callers1 == IF node.parent # NoParent /\ NodeMapHas(nm, node.parent)
                    THEN SetAdd(old.callers, FunctionKey(NodeMapGet(nm, node.parent).callFrame))
                    ELSE old.callers
        callees1 == SetAddAll(old.callees, childKeys(node.children, nm))
    IN [sm1 EXCEPT ![i] = [old EXCEPT !.selfTime = @ + MapGet0(selfTimeMap, node.id),
                                      !.totalTime = @ + MapGet0(totalTimeMap, node.id),
                                      !.hitCount = @ + MapGet0(hitCountMap, node.id),
                                      !.callers = callers1,
                                      !.callees = callees1]]

RECURSIVE aggregateLoop(_, _, _, _, _, _)
aggregateLoop(nodes, sm, selfTimeMap, totalTimeMap, hitCountMap, nm) ==
    IF nodes = <<>> THEN sm
    ELSE aggregateLoop(Tail(nodes),
                       addNodeToStats(sm, Head(nodes), selfTimeMap, totalTimeMap, hitCountMap, nm),
                       selfTimeMap, totalTimeMap, hitCountMap, nm)

aggregateFunctionStats(nodes, selfTimeMap, totalTimeMap, hitCountMap, totalTime, nm) ==
    LET sm == aggregateLoop(nodes, <<>>, selfTimeMap, totalTimeMap, hitCountMap, nm)
    IN [i \in 1..Len(sm) |->
            [sm[i] EXCEPT !.selfPercent = PercentOf(sm[i].selfTime, totalTime),
                          !.totalPercent = PercentOf(sm[i].totalTime, totalTime)]]

(***************************************************************************)
(* analyzer.ts: buildCallTree.  buildNode dereferences nodeMap.get(id)     *)
(* without a check, so a child id that is not in the table throws; on a    *)
(* cycle of children pointers the recursion never returns and overflows    *)
(* the stack.  A path of more than Len(nm) nodes repeats a node, so the    *)
(* recursion is cut at that depth and reported as thrown.                  *)
(***************************************************************************)
Thrown == [thrown |-> TRUE]

RECURSIVE buildNode(_, _, _, _, _, _)
RECURSIVE buildChildren(_, _, _, _, _, _, _)

buildChildren(children, built, fuel, nm, selfTimeMap, totalTimeMap, totalTime) ==
    IF children = <<>> THEN [thrown |-> FALSE, nodes |-> built]
    ELSE LET c == buildNode(Head(children), fuel, nm, selfTimeMap, totalTimeMap, totalTime)
         IN IF c.thrown THEN Thrown
            ELSE buildChildren(Tail(children), Append(built, c), fuel,
                               nm, selfTimeMap, totalTimeMap, totalTime)

\* buildNode leaving the children in the order of the raw children list
buildNode_Unsorted(nodeId, fuel, nm, selfTimeMap, totalTimeMap, totalTime) ==
    IF fuel = 0 \/ ~NodeMapHas(nm, nodeId) THEN Thrown
    ELSE LET node == NodeMapGet(nm, nodeId)
             selfTime == MapGet0(selfTimeMap, nodeId)
             totalTimeValue == MapGet0(totalTimeMap, nodeId)
             kids == buildChildren(node.children, <<>>, fuel - 1,
                                   nm, selfTimeMap, totalTimeMap, totalTime)
         IN IF kids.thrown THEN Thrown
            ELSE [thrown |-> FALSE,
                  name |-> node.callFrame.functionName,
                  url |-> node.callFrame.url,
                  line |-> node.callFrame.lineNumber,
                  selfTime |-> selfTime,
                  totalTime |-> totalTimeValue,
                  selfPercent |-> PercentOf(selfTime, totalTime),
                  totalPercent |-> PercentOf(totalTimeValue, totalTime),
                  children |-> kids.nodes]

buildNode(nodeId, fuel, nm, selfTimeMap, totalTimeMap, totalTime) ==
    IF fuel = 0 \/ ~NodeMapHas(nm, nodeId) THEN Thrown
    ELSE LET node == NodeMapGet(nm, nodeId)
             selfTime == MapGet0(selfTimeMap, nodeId)
             totalTimeValue == MapGet0(totalTimeMap, nodeId)
             kids == buildChildren(node.children, <<>>, fuel - 1,
                                   nm, selfTimeMap, totalTimeMap, totalTime)
             before == [i \in 1..Len(kids.nodes) |-> [j \in 1..Len(kids.nodes) |->
                           kids.nodes[i].totalTime > kids.nodes[j].totalTime]]
         IN IF kids.thrown THEN Thrown
            ELSE [thrown |-> FALSE,
                  name |-> node.callFrame.functionName,
                  url |-> node.callFrame.url,
                  line |-> node.callFrame.lineNumber,
                  selfTime |-> selfTime,
                  totalTime |-> totalTimeValue,
                  selfPercent |-> PercentOf(selfTime, totalTime),
                  totalPercent |-> PercentOf(totalTimeValue, totalTime),
                  children |-> StableSort(kids.nodes, before)]

\* analyzeProfile line 67: the root is the first node of the table
buildCallTree(nodes, nm, selfTimeMap, totalTimeMap, totalTime) ==
    IF nodes = <<>> THEN Thrown
    ELSE buildNode(nodes[1].id, Len(nm), nm, selfTimeMap, totalTimeMap, totalTime)

(***************************************************************************)
(* analyzer.ts: extractHotspots: filter, sort, slice.                      *)
(***************************************************************************)
\* determineHotspotType with the application rules tried before the native ones
determineHotspotType_AppFirst(url, name) ==
    IF StartsWith(url, "http://") \/ StartsWith(url, "https://") \/ StartsWith(url, "file://")
    THEN "app"
    ELSE IF Includes(url, "/") \/ Includes(url, "\\")
    THEN "app"
    ELSE IF url = "" \/ StartsWith(url, "native ") \/ Includes(url, "(native)")
    THEN "native"
    ELSE IF Includes(url, "node_modules") \/ Includes(url, "internal/")
    THEN "native"
    ELSE "unknown"

determineHotspotType(url, name) ==
    IF url = "" \/ StartsWith(url, "native ") \/ Includes(url, "(native)")
    THEN "native"
    ELSE IF Includes(url, "node_modules") \/ Includes(url, "internal/")
    THEN "native"
    ELSE IF StartsWith(url, "http://") \/ StartsWith(url, "https://") \/ StartsWith(url, "file://")
    THEN "app"
    ELSE IF Includes(url, "/") \/ Includes(url, "\\")
    THEN "app"
    ELSE "unknown"

\* the record a statistics entry gives in the hotspot list: a copy with the
\* callers and callees as arrays and the type added
Hotspot(stats) ==
    [f \in (DOMAIN stats) \cup {"type"} |->
        IF f = "type" THEN determineHotspotType(stats.url, stats.name) ELSE stats[f]]

Hotspots(seq) == [j \in 1..Len(seq) |-> Hotspot(seq[j])]

RECURSIVE FilterHot(_, _)
FilterHot(sm, threshold) ==
    IF sm = <<>> THEN <<>>
    ELSE (IF PctGe(Head(sm).selfPercent, PctOfNumber(threshold)) THEN <<Head(sm)>> ELSE <<>>)
         \o FilterHot(Tail(sm), threshold)

\* extractHotspots without the cut to maxCount
extractHotspots_NoSlice(functionStats, threshold, maxCount) ==
    LET hot == FilterHot(functionStats, threshold)
        before == [i \in 1..Len(hot) |-> [j \in 1..Len(hot) |->
                      hot[i].selfTime > hot[j].selfTime]]
    IN Hotspots(StableSort(hot, before))

\* extractHotspots cutting to maxCount before it sorts
extractHotspots_SliceFirst(functionStats, threshold, maxCount) ==
    LET hot == Slice0(FilterHot(functionStats, threshold), maxCount)
        before == [i \in 1..Len(hot) |-> [j \in 1..Len(hot) |->
                      hot[i].selfTime > hot[j].selfTime]]
    IN Hotspots(StableSort(hot, before))

\* extractHotspots breaking ties on self time by total time
extractHotspots_TieByTotal(functionStats, threshold, maxCount) ==
    LET hot == FilterHot(functionStats, threshold)
        before == [i \in 1..Len(hot) |-> [j \in 1..Len(hot) |->
                      \/ hot[i].selfTime > hot[j].selfTime
                      \/ (hot[i].selfTime = hot[j].selfTime
                          /\ hot[i].totalTime > hot[j].totalTime)]]
    IN Hotspots(Slice0(StableSort(hot, before), maxCount))

extractHotspots(functionStats, threshold, maxCount) ==
    LET hot == FilterHot(functionStats, threshold)
        before == [i \in 1..Len(hot) |-> [j \in 1..Len(hot) |->
                      hot[i].selfTime > hot[j].selfTime]]
    IN Hotspots(Slice0(StableSort(hot, before), maxCount))

(***************************************************************************)
(* analyzer.ts: findCriticalPaths: one path per leaf in depth-first order, *)
(* sorted by cumulativePercent, cut to maxPaths.                           *)
(***************************************************************************)
RECURSIVE SumSelfPercent(_)
SumSelfPercent(path) ==
    IF path = <<>> THEN <<0, 1>>
    ELSE PctAdd(SumSelfPercent(SubSeq(path, 1, Len(path) - 1)), path[Len(path)].selfPercent)

RECURSIVE traversePaths(_, _, _)
RECURSIVE traversePathsChildren(_, _, _)

traversePathsChildren(children, currentPath, paths) ==
    IF children = <<>> THEN paths
    ELSE traversePathsChildren(Tail(children), currentPath,
                               traversePaths(Head(children), currentPath, paths))

\* traversePaths scoring a path by its leaf's totalPercent
traversePaths_LeafTotal(node, path, paths) ==
    LET pathNode == [name |-> node.name, selfPercent |-> node.selfPercent,
                     totalPercent |-> node.totalPercent]
        currentPath == Append(path, pathNode)
    IN IF Len(node.children) = 0
       THEN Append(paths, [path |-> currentPath, cumulativePercent |-> node.totalPercent])
       ELSE traversePathsChildren(node.children, currentPath, paths)

traversePaths(node, path, paths) ==
    LET pathNode == [name |-> node.name, selfPercent |-> node.selfPercent,
                     totalPercent |-> node.totalPercent]
        currentPath == Append(path, pathNode)
    IN IF Len(node.children) = 0
       THEN Append(paths, [path |-> currentPath,
                           cumulativePercent |-> SumSelfPercent(currentPath)])
       ELSE traversePathsChildren(node.children, currentPath, paths)

\* findCriticalPaths returning the paths in traversal order
findCriticalPaths_Unsorted(callTree, maxPaths) ==
    Slice0(traversePaths(callTree, <<>>, <<>>), maxPaths)

findCriticalPaths(callTree, maxPaths) ==
    LET paths == traversePaths(callTree, <<>>, <<>>)
        before == [i \in 1..Len(paths) |-> [j \in 1..Len(paths) |->
                      ~PctGe(paths[j].cumulativePercent, paths[i].cumulativePercent)]]
    IN Slice0(StableSort(paths, before), maxPaths)

(***************************************************************************)
(* analyzer.ts: analyzeProfile.  attributeTime is lines 28-68 (the maps,   *)
(* the function statistics and the call tree, none of which reads the      *)
(* options); rankResults is lines 70-90 (hotspots, critical paths and the  *)
(* returned record).  analyzeProfile throws when buildCallTree throws.     *)
(***************************************************************************)
attributeTime(profile) ==
    LET nm == buildNodeMap(profile.nodes, <<>>)
        selfTimeMap == computeSelfTimeMap(profile.samples, profile.timeDeltas, 1, <<>>)
        hitCountMap == computeHitCountMap(profile.samples, 1, <<>>)
        totalTime == computeProfileTotalTime(profile.timeDeltas)
        totalTimeMap == computeTotalTime(profile.nodes, nm, selfTimeMap)
    IN [selfTimeMap |-> selfTimeMap,
        hitCountMap |-> hitCountMap,
        totalTime |-> totalTime,
        totalTimeMap |-> totalTimeMap,
        functionStats |-> aggregateFunctionStats(profile.nodes, selfTimeMap, totalTimeMap,
                                                 hitCountMap, totalTime, nm),
        callTree |-> buildCallTree(profile.nodes, nm, selfTimeMap, totalTimeMap, totalTime)]

rankResults(profile, a, options) ==
    [totalTime |-> a.totalTime,
     totalSamples |-> Len(profile.samples),
     sampleInterval |-> Divide(a.totalTime, Len(profile.samples)),
     startTime |-> profile.startTime,
     endTime |-> profile.endTime,
     functionStats |-> a.functionStats,
     callTree |-> a.callTree,
     hotspots |-> extractHotspots(a.functionStats, options.hotspotThreshold,
                                  options.maxHotspots),
     criticalPaths |-> findCriticalPaths(a.callTree, options.maxPaths)]

analyzeProfile(profile, options) ==
    LET a == attributeTime(profile)
    IN IF a.callTree.thrown THEN Thrown
       ELSE [thrown |-> FALSE, result |-> rankResults(profile, a, options)]

(***************************************************************************)
(* Inputs.  A logical call forest on the ids 1..n is a parent vector pv    *)
(* with pv[1] = NoParent and pv[i] < i.  The analysis reads a frame only   *)
(* to compare function keys, so the frames are assigned up to renaming:    *)
(* node 1 has frame 1 and node i has a frame already in use or the next    *)
(* one.                                                                    *)
(* The flat serialization lists the nodes in id order with parent fields   *)
(* and children arrays; its last node may carry one extra child id (a      *)
(* stale entry: an ancestor, a sibling or an id that is not in the table). *)
(* The legacy serialization nests the records of a tree under its root.    *)
(***************************************************************************)
DefaultHotspotThreshold == 1
DefaultMaxHotspots == 20
DefaultMaxPaths == 5

Forests(n) == {pv \in [1..n -> 0..(n - 1)] : pv[1] = NoParent /\ \A i \in 2..n : pv[i] < i}

Trees(n) == {pv \in Forests(n) : \A i \in 2..n : pv[i] # NoParent}

FrameAssignments(n) ==
    {fa \in [1..n -> 1..n] :
        /\ fa[1] = 1
        /\ \A i \in 2..n : \E j \in 1..(i - 1) : fa[i] <= fa[j] + 1}

RECURSIVE ChildIds(_, _, _)
ChildIds(pv, i, j) ==
    IF j > Len(pv) THEN <<>>
    ELSE (IF pv[j] = i THEN <<j>> ELSE <<>>) \o ChildIds(pv, i, j + 1)

FlatNodes(pv, fr, extra) ==
    [i \in 1..Len(pv) |->
        CpuNode(i, FrameOf(fr[i]), pv[i],
                ChildIds(pv, i, 1) \o (IF i = Len(pv) /\ extra # 0 THEN <<extra>> ELSE <<>>))]

RECURSIVE HeadRecord(_, _, _)
HeadRecord(pv, fr, i) ==
    LET kids == ChildIds(pv, i, 1)
    IN [callFrame |-> FrameOf(fr[i]),
        children |-> [k \in 1..Len(kids) |-> HeadRecord(pv, fr, kids[k])]]

SampleSeqs(n) ==
    UNION {[1..k -> (1..(n + 1)) \X (0..MaxDelta)] : k \in 0..MaxSamples}

\* the JSON text of a profile object with a node table
FlatProfile(nodes, samples, timeDeltas) ==
    JsonText(Obj([nodes |-> Arr(nodes), samples |-> Arr(samples),
                  timeDeltas |-> Arr(timeDeltas)]))

\* the JSON text of a legacy profile object: a head record and no node table
LegacyProfile(head, samples, timeDeltas) ==
    JsonText(Obj([head |-> Obj(head), samples |-> Arr(samples),
                  timeDeltas |-> Arr(timeDeltas)]))

IsLegacyInput(r) ==
    /\ r.valid
    /\ r.value.type = "object"
    /\ "head" \in DOMAIN r.value.fields
    /\ "nodes" \notin DOMAIN r.value.fields

\* r is the flat or the legacy serialization of a tree of at most MaxNodes nodes
RawInput(r) ==
    \E n \in 1..MaxNodes :
        \E pv \in Trees(n), fr \in FrameAssignments(n), sd \in SampleSeqs(n) :
            LET samples == [i \in 1..Len(sd) |-> sd[i][1]]
                timeDeltas == [i \in 1..Len(sd) |-> sd[i][2]]
            IN \/ \E extra \in 0..(n + 1) :
                      r = FlatProfile(FlatNodes(pv, fr, extra), samples, timeDeltas)
               \/ r = LegacyProfile(HeadRecord(pv, fr, 1), samples, timeDeltas)

\* One deeper tree, in the flat serialization: the root has an inner child with
\* two leaves of one function and a leaf child, so that the order of the
\* children by total time and the order of the paths by score can differ.
\* Its samples name the nodes below the root, optionally followed by one
\* sample of the root.
WidePv == <<NoParent, 1, 2, 2, 1>>

WideFr == <<1, 2, 3, 3, 4>>

WideInput(r) ==
    \E sd \in [1..(MaxSamples + 1) -> (2..Len(WidePv)) \X (1..MaxDelta)],
       rootDelta \in 0..MaxDelta :
        r = FlatProfile(FlatNodes(WidePv, WideFr, 0),
                        [i \in 1..Len(sd) |-> sd[i][1]]
                            \o (IF rootDelta > 0 THEN <<1>> ELSE <<>>),
                        [i \in 1..Len(sd) |-> sd[i][2]]
                            \o (IF rootDelta > 0 THEN <<rootDelta>> ELSE <<>>))

\* A flat table that links its nodes by parent fields only: the children member
\* of every node is absent or empty, the nodes are listed in any order, and
\* every node is sampled once.
Orders(n) == {f \in [1..n -> 1..n] : \A i, j \in 1..n : f[i] = f[j] => i = j}

ParentOnlyNodes(pv, order, emptyChildren) ==
    [k \in 1..Len(pv) |->
        IF emptyChildren
        THEN CpuNode(order[k], FrameOf(order[k]), pv[order[k]], <<>>)
        ELSE [id |-> order[k], callFrame |-> FrameOf(order[k]), parent |-> pv[order[k]]]]

ParentOnlyInput(r) ==
    \E n \in 1..MaxNodes :
        \E pv \in Trees(n), order \in Orders(n), emptyChildren \in BOOLEAN :
            r = FlatProfile(ParentOnlyNodes(pv, order, emptyChildren),
                            [i \in 1..n |-> i], [i \in 1..n |-> 1])

(***************************************************************************)
(* Inputs of the normalizer that are not a well-formed profile object:     *)
(* text that is not JSON, JSON values that are not objects, and objects in *)
(* which each of nodes, samples and timeDeltas is absent, an array, an     *)
(* empty array, null, a number or a string, with or without a legacy head  *)
(* record and a start time.  When samples and timeDeltas are both arrays   *)
(* they have the same length.                                              *)
(***************************************************************************)
MemberShapes == {"absent", "array", "empty", "null", "number", "string"}

OneNodeTable == <<CpuNode(1, FrameOf(1), NoParent, <<>>)>>

MemberValue(name, shape) ==
    CASE shape = "array" ->
             Arr(IF name = "nodes" THEN OneNodeTable ELSE <<1>>)
      [] shape = "empty" -> Arr(<<>>)
      [] shape = "null" -> Null
      [] shape = "number" -> Num(5)
      [] shape = "string" -> Str("x")

\* the object that has the members whose shape is not "absent"
ObjectOfShapes(shapes, withHead, withStartTime) ==
    LET present == {name \in DOMAIN shapes : shapes[name] # "absent"}
                       \cup (IF withHead THEN {"head"} ELSE {})
                       \cup (IF withStartTime THEN {"startTime"} ELSE {})
    IN Obj([name \in present |->
                CASE name = "head" -> Obj([callFrame |-> FrameOf(2), children |-> <<>>])
                  [] name = "startTime" -> Num(7)
                  [] OTHER -> MemberValue(name, shapes[name])])

MalformedInput(r) ==
    \/ r = NotJson
    \/ \E v \in {Null, Num(0), Num(5), Str("x"), Bool(TRUE), Arr(<<>>)} : r = JsonText(v)
    \/ \E shapes \in [{"nodes", "samples", "timeDeltas"} -> MemberShapes],
          withHead \in BOOLEAN, withStartTime \in BOOLEAN :
           /\ {shapes["samples"], shapes["timeDeltas"]} # {"array", "empty"}
           /\ r = JsonText(ObjectOfShapes(shapes, withHead, withStartTime))

(***************************************************************************)
(* Chromium trace containers: a top-level array of events or an object     *)
(* with a traceEvents array.  An event is null, an event of another name,  *)
(* a CpuProfile event without payload, or an event that carries one of     *)
(* three profile objects as args.data.cpuProfile (under the name           *)
(* CpuProfile or another name) or as args.data (under the name             *)
(* CpuProfile).  The three profile objects are a flat profile, a legacy    *)
(* profile and a profile without samples.                                  *)
(***************************************************************************)
EmbeddedProfiles ==
    {Obj([nodes |-> Arr(OneNodeTable), samples |-> Arr(<<1>>), timeDeltas |-> Arr(<<1>>)]),
     Obj([head |-> Obj([callFrame |-> FrameOf(2), children |-> <<>>]),
          samples |-> Arr(<<1>>), timeDeltas |-> Arr(<<2>>)]),
     Obj([nodes |-> Arr(OneNodeTable), timeDeltas |-> Arr(<<1>>)])}

TraceEvents ==
    {Null, Obj([name |-> Str("Other")]), Obj([name |-> Str("CpuProfile")])}
        \cup {Obj([name |-> Str(n), args |-> Obj([data |-> Obj([cpuProfile |-> p])])]) :
                  n \in {"CpuProfile", "Other"}, p \in EmbeddedProfiles}
        \cup {Obj([name |-> Str("CpuProfile"), args |-> Obj([data |-> p])]) :
                  p \in EmbeddedProfiles}

TraceInput(r) ==
    \E k \in 0..MaxEvents :
        \E events \in [1..k -> TraceEvents], wrapped \in BOOLEAN :
            r = JsonText(IF wrapped THEN Obj([traceEvents |-> Arr(events)]) ELSE Arr(events))

(***************************************************************************)
(* Legacy records with gaps: a record carries its frame fields inline or   *)
(* in an embedded callFrame, and in both cases the function name and the   *)
(* URL may be missing; an embedded callFrame may also lack the script id.  *)
(* The head has one child.                                                 *)
(***************************************************************************)
\* the record with the members of full whose names are in present
Restrict(full, present) == [f \in present |-> full[f]]

LegacyRecords(children) ==
    LET inline == [functionName |-> "fnA", url |-> "file:///a.js", lineNumber |-> 3,
                   columnNumber |-> 4, children |-> children]
        embedded == [functionName |-> "fnB", url |-> "file:///b.js", scriptId |-> "17",
                     lineNumber |-> 5, columnNumber |-> 6]
    IN {Restrict(inline, {"lineNumber", "columnNumber", "children"} \cup some) :
            some \in SUBSET {"functionName", "url"}}
       \cup {[callFrame |-> Restrict(embedded, {"lineNumber", "columnNumber"} \cup some),
               children |-> children] :
                  some \in SUBSET {"functionName", "url", "scriptId"}}

LegacyFrameInput(r) ==
    \E child \in LegacyRecords(<<>>) :
        \E head \in LegacyRecords(<<child>>) :
            r = LegacyProfile(head, <<1>>, <<1>>)

(***************************************************************************)
(* Flat tables to reconcile: the nodes 1..MaxNodes in id order, node 1     *)
(* without parent, every other node with a parent field that is absent or  *)
(* names any id up to MaxNodes + 1.  One node has any children array of at *)
(* most two ids up to MaxNodes + 1 (incomplete, stale or with a repeated   *)
(* id), or none; the other nodes have all the same kind of children array: *)
(* absent, empty or complete.                                              *)
(***************************************************************************)
ChildLists(n) == UNION {[1..k -> 1..(n + 1)] : k \in 0..2}

ReconcileNodes(pv, own, list, listed, others) ==
    [i \in 1..Len(pv) |->
        LET bare == [id |-> i, callFrame |-> FrameOf(i), parent |-> pv[i]]
        IN IF i = own
           THEN (IF listed THEN WithChildren(bare, list) ELSE bare)
           ELSE CASE others = "absent" -> bare
                  [] others = "empty" -> WithChildren(bare, <<>>)
                  [] others = "complete" -> WithChildren(bare, ChildIds(pv, i, 1))]

ReconcileInput(r) ==
    \E pv \in [1..MaxNodes -> 0..(MaxNodes + 1)], own \in 1..MaxNodes,
       list \in ChildLists(MaxNodes), listed \in BOOLEAN,
       others \in {"absent", "empty", "complete"} :
        /\ pv[1] = NoParent
        /\ listed \/ list = <<>>
        /\ r = FlatProfile(ReconcileNodes(pv, own, list, listed, others), <<>>, <<>>)

\* a root with three children, the first of which calls itself once
RecursionPv == <<NoParent, 1, 2, 1, 1>>

RecursionFr == <<1, 2, 2, 3, 4>>

\* every node but the root sampled once
RecursionInput(r) ==
    \E d \in [2..Len(RecursionPv) -> 0..MaxDelta] :
        r = FlatProfile(FlatNodes(RecursionPv, RecursionFr, 0),
                        <<2, 3, 4, 5>>, <<d[2], d[3], d[4], d[5]>>)

\* a root and one child with up to MaxSamples samples, with or without start
\* and end timestamps
TimedInput(r) ==
    \E sd \in SampleSeqs(1), startTime \in {0, 7}, endTime \in {0, 12} :
        LET members == [nodes |-> Arr(FlatNodes(<<NoParent, 1>>, <<1, 2>>, 0)),
                        samples |-> Arr([i \in 1..Len(sd) |-> sd[i][1]]),
                        timeDeltas |-> Arr([i \in 1..Len(sd) |-> sd[i][2]]),
                        startTime |-> Num(startTime),
                        endTime |-> Num(endTime)]
            present == {"nodes", "samples", "timeDeltas"}
                           \cup (IF startTime # 0 THEN {"startTime"} ELSE {})
                           \cup (IF endTime # 0 THEN {"endTime"} ELSE {})
        IN r = JsonText(Obj([name \in present |-> members[name]]))

\* call frames that differ in the function name, the URL, the line or the
\* script id, with and without the character @ in the name and the URL
KeyFrames ==
    {[functionName |-> name, scriptId |-> script, url |-> url,
      lineNumber |-> line, columnNumber |-> 1] :
        name \in {"f", "f@x"}, url \in {"y", "x@y"}, line \in {1, 2}, script \in {"1", "2"}}

\* a root with two children of any two of these frames, each sampled once
KeyInput(r) ==
    \E cf2 \in KeyFrames, cf3 \in KeyFrames :
        r = FlatProfile(<<CpuNode(1, FrameOf(1), NoParent, <<2, 3>>),
                          CpuNode(2, cf2, 1, <<>>), CpuNode(3, cf3, 1, <<>>)>>,
                        <<2, 3>>, <<1, 2>>)

\* a tree given by children arrays alone, no node with a parent field, every
\* node sampled once
ChildrenOnlyInput(r) ==
    \E n \in 2..MaxNodes :
        \E pv \in Trees(n), fr \in FrameAssignments(n) :
            r = FlatProfile([i \in 1..n |-> [id |-> i, callFrame |-> FrameOf(fr[i]),
                                              parent |-> NoParent,
                                              children |-> ChildIds(pv, i, 1)]],
                            [i \in 1..n |-> i], [i \in 1..n |-> 1])

\* a root and its child, of one function or of two, each with a declared
\* hitCount field, and samples that name the two nodes or the id 3 of no node
HitCountInput(r) ==
    \E fr \in {<<1, 1>>, <<1, 2>>}, declared \in [1..2 -> 0..2],
       samples \in UNION {[1..k -> 1..3] : k \in 0..MaxSamples} :
        r = FlatProfile(<<[id |-> 1, callFrame |-> FrameOf(fr[1]), hitCount |-> declared[1],
                           parent |-> NoParent, children |-> <<2>>],
                          [id |-> 2, callFrame |-> FrameOf(fr[2]), hitCount |-> declared[2],
                           parent |-> 1, children |-> <<>>]>>,
                        samples, [i \in 1..Len(samples) |-> 1])

\* source URLs of the kinds that the hotspot classification tells apart
Urls ==
    {"", "native array.js", "extensions::(native)", "native",
     "file:///app/node_modules/x.js", "node:internal/fs", "node_modules",
     "http://h/a.js", "https://h/a.js", "file:///app/a.js", "/app/a.js",
     "C:\\app\\a.js", "evalmachine.<anonymous>"}

\* a root and one child with source URLs of any two kinds, each sampled once
UrlInput(r) ==
    \E u1 \in Urls, u2 \in Urls :
        r = FlatProfile(<<CpuNode(1, [FrameOf(1) EXCEPT !.url = u1], NoParent, <<2>>),
                          CpuNode(2, [FrameOf(2) EXCEPT !.url = u2], 1, <<>>)>>,
                        <<1, 2>>, <<1, 1>>)

Thresholds == {0, DefaultHotspotThreshold, 50}

Limits == {<<0, 0>>, <<1, 1>>, <<DefaultMaxHotspots, DefaultMaxPaths>>}

OptionSets ==
    {[hotspotThreshold |-> t, maxHotspots |-> l[1], maxPaths |-> l[2]] :
        t \in Thresholds, l \in Limits}

(***************************************************************************)
(* The state machine of one conversion: parseProfile, then analyzeProfile  *)
(* in its two parts.  The variables selfTimeMap .. callTree are the locals *)
(* of analyzeProfile; result is what it returns.                           *)
(***************************************************************************)
VARIABLES pc, raw, profile, error, options, selfTimeMap, hitCountMap, totalTimeMap,
          totalTime, functionStats, callTree, result, calls, nextId

vars == <<pc, raw, profile, error, options, selfTimeMap, hitCountMap, totalTimeMap,
          totalTime, functionStats, callTree, result, calls, nextId>>

\* the state of conversions that run side by side (see ConcurrentSpec)
workers == <<calls, nextId>>

locals == <<selfTimeMap, hitCountMap, totalTimeMap, totalTime, functionStats, callTree>>

NoProfile == [startTime |-> 0, endTime |-> 0, nodes |-> <<>>, samples |-> <<>>, timeDeltas |-> <<>>]

NoError == [thrown |-> FALSE]

NoOptions == [hotspotThreshold |-> 0, maxHotspots |-> 0, maxPaths |-> 0]

\* before parseProfile is called
Start ==
    /\ pc = "raw"
    /\ profile = NoProfile
    /\ error = NoError
    /\ options = NoOptions
    /\ selfTimeMap = <<>>
    /\ hitCountMap = <<>>
    /\ totalTimeMap = <<>>
    /\ totalTime = 0
    /\ functionStats = <<>>
    /\ callTree = <<>>
    /\ result = <<>>

\* no conversion runs beside the one of pc
Alone ==
    /\ calls = <<>>
    /\ nextId = <<>>

Init ==
    /\ (RawInput(raw) \/ WideInput(raw) \/ ParentOnlyInput(raw) \/ MalformedInput(raw)
        \/ UrlInput(raw) \/ RecursionInput(raw) \/ TimedInput(raw)
        \/ KeyInput(raw) \/ ChildrenOnlyInput(raw)
        \/ HitCountInput(raw))
    /\ Start
    /\ Alone

\* parser.ts: parseProfile returns the canonical profile or throws
ParseProfile ==
    /\ pc = "raw"
    /\ LET r == parseProfile(raw)
       IN IF r.thrown
          THEN /\ error' = r
               /\ pc' = "failed"
               /\ UNCHANGED profile
          ELSE /\ profile' = r.profile
               /\ pc' = "parsed"
               /\ UNCHANGED error
    /\ UNCHANGED <<raw, options, locals, result, workers>>

\* analyzer.ts 22-68: analyzeProfile up to the call tree; buildCallTree may throw
\* analyzeProfile with buildNode sorting node.children itself instead of the
\* array that map returns
AttributeTime_SortInPlace ==
    /\ pc = "parsed"
    /\ LET a == attributeTime(profile)
       IN /\ selfTimeMap' = a.selfTimeMap
          /\ hitCountMap' = a.hitCountMap
          /\ totalTimeMap' = a.totalTimeMap
          /\ totalTime' = a.totalTime
          /\ functionStats' = a.functionStats
          /\ callTree' = a.callTree
          /\ profile' = [profile EXCEPT !.nodes =
                 [i \in 1..Len(profile.nodes) |->
                     LET c == profile.nodes[i].children
                         before == [k \in 1..Len(c) |-> [l \in 1..Len(c) |->
                                       MapGet0(a.totalTimeMap, c[k]) > MapGet0(a.totalTimeMap, c[l])]]
                     IN [profile.nodes[i] EXCEPT !.children = StableSort(c, before)]]]
          /\ pc' = IF a.callTree.thrown THEN "threw" ELSE "attributed"
    /\ UNCHANGED <<raw, error, options, result, workers>>

AttributeTime ==
    /\ pc = "parsed"
    /\ LET a == attributeTime(profile)
       IN /\ selfTimeMap' = a.selfTimeMap
          /\ hitCountMap' = a.hitCountMap
          /\ totalTimeMap' = a.totalTimeMap
          /\ totalTime' = a.totalTime
          /\ functionStats' = a.functionStats
          /\ callTree' = a.callTree
          /\ pc' = IF a.callTree.thrown THEN "threw" ELSE "attributed"
    /\ UNCHANGED <<raw, profile, error, options, result, workers>>

\* analyzer.ts 70-90: hotspots, critical paths and the returned AnalysisResult
RankResults ==
    /\ pc = "attributed"
    /\ \E o \in OptionSets :
        /\ options' = o
        /\ result' = [totalTime |-> totalTime,
                      totalSamples |-> Len(profile.samples),
                      sampleInterval |-> Divide(totalTime, Len(profile.samples)),
                      startTime |-> profile.startTime,
                      endTime |-> profile.endTime,
                      functionStats |-> functionStats,
                      callTree |-> callTree,
                      hotspots |-> extractHotspots(functionStats, o.hotspotThreshold,
                                                   o.maxHotspots),
                      criticalPaths |-> findCriticalPaths(callTree, o.maxPaths)]
    /\ pc' = "done"
    /\ UNCHANGED <<raw, profile, error, locals, workers>>

Next == ParseProfile \/ AttributeTime \/ RankResults

Spec == Init /\ [][Next]_vars

(***************************************************************************)
(* The normalizer alone: parseProfile on malformed inputs, trace           *)
(* containers and tables to reconcile.                                     *)
(***************************************************************************)
ParserInit ==
    /\ (MalformedInput(raw) \/ TraceInput(raw) \/ ReconcileInput(raw)
        \/ LegacyFrameInput(raw))
    /\ Start
    /\ Alone

ParserNext == ParseProfile

ParserSpec == ParserInit /\ [][ParserNext]_vars

(***************************************************************************)
(* Conversions side by side.  Each call of parseProfile and analyzeProfile *)
(* has its own locals; a step of one call is taken between the steps of    *)
(* the others.  The flattening of a legacy record is split at the one      *)
(* place where it writes a variable declared outside traverse: the id      *)
(* counter of linearizeHeadBasedTree, const id = nextId++.  calls[c] is    *)
(* the state of call c, with ids the ids taken so far in pre-order;        *)
(* nextId[k] is the value of counter cell k.                               *)
(***************************************************************************)
Calls == 1..MaxCalls

\* the number of records of a legacy tree
RECURSIVE CountRecords(_)
RECURSIVE CountRecordsOfAll(_)
CountRecordsOfAll(children) ==
    IF children = <<>> THEN 0
    ELSE CountRecords(Head(children)) + CountRecordsOfAll(Tail(children))

CountRecords(node) == 1 + CountRecordsOfAll(recordChildren(node))

\* traverse with the ids it took given as the sequence ids, in the order in
\* which they were taken; st is [nodes, taken]
RECURSIVE traverseTaking(_, _, _, _)
RECURSIVE traverseTakingChildren(_, _, _, _, _)

traverseTakingChildren(children, parentId, st, childIds, ids) ==
    IF children = <<>> THEN [st |-> st, ids |-> childIds]
    ELSE LET r == traverseTaking(Head(children), parentId, st, ids)
         IN traverseTakingChildren(Tail(children), parentId,
                                   [nodes |-> r.nodes, taken |-> r.taken],
                                   Append(childIds, r.id), ids)

traverseTaking(node, parentId, st, ids) ==
    LET id == ids[st.taken + 1]
        kids == traverseTakingChildren(recordChildren(node), id,
                                       [nodes |-> st.nodes, taken |-> st.taken + 1],
                                       <<>>, ids)
        cpuNode == CpuNode(id, callFrameOf(node), parentId, kids.ids)
    IN [nodes |-> Append(kids.st.nodes, cpuNode), taken |-> kids.st.taken, id |-> id]

\* the counter that call c reads and writes with the counter of call 1:
\* nextId declared once for the module
counterOf_Shared(c) == 1

\* the counter that call c reads and writes: let nextId = 1 is a local of
\* linearizeHeadBasedTree, so every call has a counter of its own
counterOf(c) == c

\* the inputs of a call: a tree of up to MaxNodes nodes, every node with a
\* function of its own and sampled once, as a legacy record and as a table
CallInputs ==
    UNION {LET n == Len(pv)
               fr == [i \in 1..n |-> i]
               samples == [i \in 1..n |-> i]
               timeDeltas == [i \in 1..n |-> 1]
           IN {LegacyProfile(HeadRecord(pv, fr, 1), samples, timeDeltas),
               FlatProfile(FlatNodes(pv, fr, 0), samples, timeDeltas)} :
           pv \in UNION {Trees(n) : n \in 1..MaxNodes}}

DefaultOptions ==
    [hotspotThreshold |-> DefaultHotspotThreshold, maxHotspots |-> DefaultMaxHotspots,
     maxPaths |-> DefaultMaxPaths]

ConcurrentInit ==
    /\ Start
    /\ raw = NotJson
    /\ calls \in [Calls -> {[pc |-> "called", raw |-> r, ids |-> <<>>,
                              profile |-> NoProfile, result |-> <<>>] : r \in CallInputs}]
    /\ nextId = [k \in Calls |-> 0]

\* parser.ts 36-62 and 94-95: the text is parsed; for a legacy record the
\* flattening starts with let nextId = 1
BeginCall(c) ==
    /\ calls[c].pc = "called"
    /\ IF IsLegacyInput(calls[c].raw)
       THEN /\ nextId' = [nextId EXCEPT ![counterOf(c)] = 1]
            /\ calls' = [calls EXCEPT ![c].pc = "flattening"]
       ELSE /\ calls' = [calls EXCEPT ![c].pc = "flattened"]
            /\ UNCHANGED nextId
    /\ UNCHANGED <<pc, raw, profile, error, options, locals, result>>

\* parser.ts 98: const id = nextId++, once per record of the legacy tree
TakeId(c) ==
    /\ calls[c].pc = "flattening"
    /\ LET head == calls[c].raw.value.fields.head.fields
           ids == Append(calls[c].ids, nextId[counterOf(c)])
       IN calls' = [calls EXCEPT ![c].ids = ids,
                                 ![c].pc = IF Len(ids) = CountRecords(head)
                                           THEN "flattened" ELSE "flattening"]
    /\ nextId' = [nextId EXCEPT ![counterOf(c)] = @ + 1]
    /\ UNCHANGED <<pc, raw, profile, error, options, locals, result>>

\* parser.ts 63-86: parsed.nodes = the flattened table, validation, rebuilt
\* children, the canonical profile
FinishParse(c) ==
    /\ calls[c].pc = "flattened"
    /\ LET parsed == calls[c].raw.value
           working == IF IsLegacyInput(calls[c].raw)
                      THEN Obj([f \in (DOMAIN parsed.fields) \cup {"nodes"} |->
                                   IF f = "nodes"
                                   THEN Arr(traverseTaking(parsed.fields.head.fields, NoParent,
                                                           [nodes |-> <<>>, taken |-> 0],
                                                           calls[c].ids).nodes)
                                   ELSE parsed.fields[f]])
                      ELSE parsed
           r == validateAndBuild(working)
       IN calls' = [calls EXCEPT ![c].pc = IF r.thrown THEN "failed" ELSE "parsed",
                                 ![c].profile = IF r.thrown THEN @ ELSE r.profile]
    /\ UNCHANGED <<pc, raw, profile, error, options, locals, result, nextId>>

\* analyzer.ts 22-91: analyzeProfile with the default options
Analyze(c) ==
    /\ calls[c].pc = "parsed"
    /\ LET a == analyzeProfile(calls[c].profile, DefaultOptions)
       IN calls' = [calls EXCEPT ![c].pc = IF a.thrown THEN "threw" ELSE "done",
                                 ![c].result = IF a.thrown THEN @ ELSE a.result]
    /\ UNCHANGED <<pc, raw, profile, error, options, locals, result, nextId>>

ConcurrentNext == \E c \in Calls : BeginCall(c) \/ TakeId(c) \/ FinishParse(c) \/ Analyze(c)

ConcurrentSpec == ConcurrentInit /\ [][ConcurrentNext]_vars

(***************************************************************************)
(* Properties.  Helpers shared by the statements below.                    *)
(***************************************************************************)
Attributed == pc \in {"attributed", "done", "threw"}

TableIds == {profile.nodes[i].id : i \in 1..Len(profile.nodes)}

SamplesNameTableNodes == \A i \in 1..Len(profile.samples) : profile.samples[i] \in TableIds

\* sum of m[id] (0 when absent) over the nodes of a table at the positions in I
SumOverNodes(nodes, m, I) ==
    SumSeq([i \in 1..Len(nodes) |-> IF i \in I THEN MapGet0(m, nodes[i].id) ELSE 0])

\* sum of the values of a map over the keys in S
RECURSIVE SumMapOver(_, _)
SumMapOver(m, S) ==
    IF S = {} THEN 0
    ELSE LET k == CHOOSE x \in S : TRUE IN m[k] + SumMapOver(m, S \ {k})

SelfTimeOverTable == SumOverNodes(profile.nodes, selfTimeMap, 1..Len(profile.nodes))

\* C1 as stated: for every canonical profile, the self time summed over the
\* nodes of the node table equals the profile total time (the sum of timeDeltas).
C1_SelfTimeSumsToTotal ==
    Attributed => SelfTimeOverTable = totalTime

\* C1 amended: the two sums agree when every sample names a node of the table;
\* in every case the self time summed over all sampled ids is the total time.
C1_SelfTimeSumsToTotalWhenSamplesInTable ==
    Attributed =>
        /\ SamplesNameTableNodes => SelfTimeOverTable = totalTime
        /\ SumMapOver(selfTimeMap, DOMAIN selfTimeMap) = totalTime

C1_Witness ==
    /\ pc = "done"
    /\ SamplesNameTableNodes
    /\ Len(profile.samples) = 2
    /\ profile.samples[1] = profile.samples[2]
    /\ totalTime = 3

\* C2, on inputs whose samples all name table nodes: the total time of the root
\* of the call tree is the profile total time, and its totalPercent is 100 when
\* the total time is positive.
C2_RootTotalIsProfileTotal ==
    (pc = "done" /\ SamplesNameTableNodes /\ IsLegacyInput(raw)) =>
        /\ result.callTree.totalTime = result.totalTime
        /\ result.totalTime > 0 => result.callTree.totalPercent = <<100, 1>>

\* C3: for every node of the node table the total time computed by the time
\* attribution step is at least the node's self time.
C3_TotalAtLeastSelf ==
    Attributed =>
        \A i \in 1..Len(profile.nodes) :
            /\ profile.nodes[i].id \in DOMAIN totalTimeMap
            /\ totalTimeMap[profile.nodes[i].id] >= MapGet0(selfTimeMap, profile.nodes[i].id)

C3_Witness ==
    /\ pc = "done"
    /\ \E i \in 1..Len(profile.nodes) :
        LET id == profile.nodes[i].id
        IN MapGet0(selfTimeMap, id) > 0 /\ totalTimeMap[id] > MapGet0(selfTimeMap, id)

\* C4: each FunctionStats record holds the sums of self time, per-node total
\* time and sample hits over the table nodes with its key; there is exactly one
\* record per key; the total is not deduplicated across tree positions.
C4_StatsAreSumsOverNodes ==
    (pc \in {"attributed", "done"}) =>
        /\ \A i \in 1..Len(profile.nodes) :
               StatsHas(functionStats, FunctionKey(profile.nodes[i].callFrame))
        /\ \A i, j \in 1..Len(functionStats) :
               functionStats[i].key = functionStats[j].key => i = j
        /\ \A i \in 1..Len(functionStats) :
               LET HasKey == {j \in 1..Len(profile.nodes) :
                                 FunctionKey(profile.nodes[j].callFrame) = functionStats[i].key}
               IN /\ functionStats[i].selfTime = SumOverNodes(profile.nodes, selfTimeMap, HasKey)
                  /\ functionStats[i].totalTime = SumOverNodes(profile.nodes, totalTimeMap, HasKey)
                  /\ functionStats[i].hitCount = SumOverNodes(profile.nodes, hitCountMap, HasKey)

\* a self-recursive function whose summed total exceeds the profile total time
C4_Witness ==
    /\ pc = "done"
    /\ result.functionStats = functionStats
    /\ \E i \in 1..Len(functionStats) :
        /\ functionStats[i].totalTime > totalTime
        /\ functionStats[i].key \in Range(functionStats[i].callees)

(***************************************************************************)
(* Hotspot ranker.                                                         *)
(***************************************************************************)
\* indices of the function statistics whose self% reaches threshold t
PassingStats(t) ==
    {i \in 1..Len(result.functionStats) :
        result.functionStats[i].selfPercent[1] >= t * result.functionStats[i].selfPercent[2]}

HotspotKeys(h) == {h[i].key : i \in 1..Len(h)}

\* C5: the hotspot list has at most maxHotspots entries and every entry has
\* selfPercent >= hotspotThreshold.
C5_HotspotsBounded ==
    pc = "done" =>
        /\ Len(result.hotspots) <= options.maxHotspots
        /\ \A i \in 1..Len(result.hotspots) :
               result.hotspots[i].selfPercent[1]
                   >= options.hotspotThreshold * result.hotspots[i].selfPercent[2]

\* the list was cut by maxHotspots and the threshold dropped a function
C5_Witness ==
    /\ pc = "done"
    /\ options.maxHotspots = 1
    /\ Len(result.hotspots) = 1
    /\ Cardinality(PassingStats(options.hotspotThreshold)) = 2
    /\ Len(result.functionStats) = 3

\* C6: for a fixed maxHotspots, every function in the hotspot list of the
\* threshold in use is in the hotspot list of every lower threshold.
C6_LoweringThresholdKeepsHotspots ==
    pc = "done" =>
        \A t2 \in Thresholds :
            t2 <= options.hotspotThreshold =>
                HotspotKeys(result.hotspots)
                    \subseteq HotspotKeys(extractHotspots(result.functionStats, t2,
                                                          options.maxHotspots))

\* a lower threshold admits more functions than maxHotspots lets through
C6_Witness ==
    /\ pc = "done"
    /\ options.hotspotThreshold = 50
    /\ options.maxHotspots = 1
    /\ Len(result.hotspots) = 1
    /\ Cardinality(PassingStats(0)) = 3
    /\ Cardinality(PassingStats(50)) = 1

\* position in the node table at which a function key is first met
FirstSeen(key) ==
    CHOOSE i \in 1..Len(profile.nodes) :
        /\ FunctionKey(profile.nodes[i].callFrame) = key
        /\ \A j \in 1..(i - 1) : FunctionKey(profile.nodes[j].callFrame) # key

\* a ranks before b: greater self time, or equal self time and met earlier
RanksBefore(a, b) ==
    \/ a.selfTime > b.selfTime
    \/ (a.selfTime = b.selfTime /\ FirstSeen(a.key) < FirstSeen(b.key))

\* C7: the hotspot list is the functions with selfPercent >= threshold, by
\* descending self time, equal self times in the order in which the keys are
\* first met in the node table, cut to the first maxHotspots entries.
C7_HotspotsAreRankedPrefix ==
    pc = "done" =>
        LET H == result.hotspots
            S == result.functionStats
            P == PassingStats(options.hotspotThreshold)
        IN /\ Len(H) = Min(options.maxHotspots, Cardinality(P))
           /\ \A p \in 1..Len(H) : \E i \in P : \A f \in DOMAIN S[i] : H[p][f] = S[i][f]
           /\ \A p, q \in 1..Len(H) : p < q => RanksBefore(H[p], H[q])
           /\ \A i \in P : S[i].key \notin HotspotKeys(H) =>
                  \A p \in 1..Len(H) : RanksBefore(H[p], S[i])

\* three functions pass, the two that tie on self time come first, and the
\* function met first in the node table comes last
C7_Witness ==
    /\ pc = "done"
    /\ Len(result.hotspots) = 3
    /\ result.hotspots[1].selfTime = result.hotspots[2].selfTime
    /\ result.hotspots[2].selfTime > result.hotspots[3].selfTime
    /\ FirstSeen(result.hotspots[3].key) = 1

(***************************************************************************)
(* Critical path finder.                                                   *)
(***************************************************************************)
PathNodeOf(t) == [name |-> t.name, selfPercent |-> t.selfPercent, totalPercent |-> t.totalPercent]

\* the subtrees of a call tree that have no children
RECURSIVE LeafNodes(_)
LeafNodes(t) ==
    IF t.children = <<>> THEN {t}
    ELSE UNION {LeafNodes(t.children[i]) : i \in 1..Len(t.children)}

\* every walk from the root of t down to a leaf, as a sequence of path nodes
RECURSIVE Flatten(_)
Flatten(ss) == IF ss = <<>> THEN <<>> ELSE Head(ss) \o Flatten(Tail(ss))

RECURSIVE RootToLeafWalks(_)
RootToLeafWalks(t) ==
    IF t.children = <<>> THEN << <<PathNodeOf(t)>> >>
    ELSE LET below == Flatten([i \in 1..Len(t.children) |-> RootToLeafWalks(t.children[i])])
         IN [k \in 1..Len(below) |-> <<PathNodeOf(t)>> \o below[k]]

RECURSIVE LeafCount(_)
LeafCount(t) ==
    IF t.children = <<>> THEN 1
    ELSE SumSeq([i \in 1..Len(t.children) |-> LeafCount(t.children[i])])

RECURSIVE WalkScore(_)
WalkScore(w) == IF w = <<>> THEN <<0, 1>> ELSE PctAdd(Head(w).selfPercent, WalkScore(Tail(w)))

Occurrences(s, x) == Cardinality({i \in 1..Len(s) : s[i] = x})

ScoreGe(p, q) == p[1] * q[2] >= q[1] * p[2]

\* C8: at most maxPaths critical paths; each starts at the call-tree root and
\* ends at a call-tree node without children; cumulativePercent is
\* non-increasing along the list.
C8_CriticalPathsBoundedRootedSorted ==
    pc = "done" =>
        LET cp == result.criticalPaths
        IN /\ Len(cp) <= options.maxPaths
           /\ \A i \in 1..Len(cp) :
                  /\ Len(cp[i].path) >= 1
                  /\ cp[i].path[1] = PathNodeOf(result.callTree)
                  /\ \E leaf \in LeafNodes(result.callTree) :
                         cp[i].path[Len(cp[i].path)] = PathNodeOf(leaf)
           /\ \A i \in 1..(Len(cp) - 1) :
                  ScoreGe(cp[i].cumulativePercent, cp[i + 1].cumulativePercent)

\* three paths; the heaviest is not the one the traversal finds first (it runs
\* through the second child of the root), and the list is strictly decreasing
\* at its head
C8_Witness ==
    /\ pc = "done"
    /\ Len(result.criticalPaths) = 3
    /\ ~ScoreGe(result.criticalPaths[2].cumulativePercent,
                result.criticalPaths[1].cumulativePercent)
    /\ Len(result.callTree.children) = 2
    /\ Len(result.callTree.children[1].children) = 2
    /\ Len(result.criticalPaths[1].path) = 2

\* C9: the critical paths are root-to-leaf walks of the call tree, one per leaf,
\* each scored by the sum of the selfPercent of its nodes, and the list holds
\* the maxPaths highest-scoring of them.
C9_CriticalPathsAreTopLeafWalks ==
    pc = "done" =>
        LET cp == result.criticalPaths
            walks == RootToLeafWalks(result.callTree)
            paths == [i \in 1..Len(cp) |-> cp[i].path]
        IN /\ Len(cp) = Min(options.maxPaths, LeafCount(result.callTree))
           /\ \A i \in 1..Len(cp) :
                  /\ Occurrences(paths, paths[i]) <= Occurrences(walks, paths[i])
                  /\ cp[i].cumulativePercent = WalkScore(paths[i])
           /\ \A k \in 1..Len(walks) :
                  Occurrences(paths, walks[k]) < Occurrences(walks, walks[k]) =>
                      \A i \in 1..Len(cp) : ScoreGe(cp[i].cumulativePercent, WalkScore(walks[k]))

\* three leaves, one path kept: the heaviest, which the traversal finds last
\* and whose score is not its leaf's total%
C9_Witness ==
    /\ pc = "done"
    /\ options.maxPaths = 1
    /\ LeafCount(result.callTree) = 3
    /\ Len(result.criticalPaths) = 1
    /\ LET p == result.criticalPaths[1]
           walks == RootToLeafWalks(result.callTree)
       IN /\ p.cumulativePercent # p.path[Len(p.path)].totalPercent
          /\ p.path = walks[3]
          /\ \A k \in 1..2 : ~ScoreGe(WalkScore(walks[k]), p.cumulativePercent)

(***************************************************************************)
(* Legacy nested record against the flat node table of the same tree.      *)
(***************************************************************************)
\* the flat table of a legacy record: ids in pre-order, nodes in id order,
\* parent fields and children arrays both present
RECURSIVE PreorderNodes(_, _, _)
RECURSIVE PreorderChildren(_, _, _, _)

PreorderChildren(children, parentId, firstId, acc) ==
    IF children = <<>> THEN acc
    ELSE LET sub == PreorderNodes(Head(children), parentId, firstId)
         IN PreorderChildren(Tail(children), parentId, firstId + Len(sub),
                             [nodes |-> acc.nodes \o sub, ids |-> Append(acc.ids, firstId)])

PreorderNodes(rec, parentId, id) ==
    LET kids == PreorderChildren(rec.children, id, id + 1, [nodes |-> <<>>, ids |-> <<>>])
    IN <<CpuNode(id, rec.callFrame, parentId, kids.ids)>> \o kids.nodes

EquivalentFlatInput(r) ==
    FlatProfile(PreorderNodes(r.value.fields.head.fields, NoParent, 1),
                r.value.fields.samples.items, r.value.fields.timeDeltas.items)

StatsNumbers(sm) ==
    {[key |-> sm[i].key, selfTime |-> sm[i].selfTime, totalTime |-> sm[i].totalTime,
      selfPercent |-> sm[i].selfPercent, totalPercent |-> sm[i].totalPercent,
      hitCount |-> sm[i].hitCount, callers |-> Range(sm[i].callers),
      callees |-> Range(sm[i].callees)] : i \in 1..Len(sm)}

\* C10: a legacy nested record and the flat node table of the same tree, with
\* the same samples, analyse to the same total time, function statistics, call
\* tree, hotspot list and critical paths.
C10_LegacyAndFlatAgree ==
    (pc = "done" /\ IsLegacyInput(raw) /\ SamplesNameTableNodes) =>
        LET flat == analyzeProfile(parseProfile(EquivalentFlatInput(raw)).profile, options)
        IN /\ ~flat.thrown
           /\ flat.result.totalTime = result.totalTime
           /\ StatsNumbers(flat.result.functionStats) = StatsNumbers(result.functionStats)
           /\ flat.result.callTree = result.callTree
           /\ StatsNumbers(flat.result.hotspots) = StatsNumbers(result.hotspots)
           /\ flat.result.criticalPaths = result.criticalPaths

(***************************************************************************)
(* Tables linked by parent fields only.                                    *)
(***************************************************************************)
\* the node table of the input, when the input is a profile object with one
InputNodes == raw.value.fields.nodes.items

HasNodeTable ==
    /\ raw.valid
    /\ raw.value.type = "object"
    /\ "nodes" \in DOMAIN raw.value.fields
    /\ raw.value.fields.nodes.type = "array"

\* following the parent fields from node i of the table reaches a node without
\* parent in at most k steps
RECURSIVE ReachesRoot(_, _, _)
ReachesRoot(nodes, i, k) ==
    \/ nodes[i].parent = NoParent
    \/ /\ k > 0
       /\ \E j \in 1..Len(nodes) :
              nodes[j].id = nodes[i].parent /\ ReachesRoot(nodes, j, k - 1)

\* every children array is absent or empty, the ids are distinct, one node has
\* no parent and the parent fields lead from every other node to it
IsParentOnlyTable(nodes) ==
    /\ Len(nodes) >= 1
    /\ \A i \in 1..Len(nodes) : ~HasOwnChildren(nodes[i])
    /\ \A i, j \in 1..Len(nodes) : nodes[i].id = nodes[j].id => i = j
    /\ Cardinality({i \in 1..Len(nodes) : nodes[i].parent = NoParent}) = 1
    /\ \A i \in 1..Len(nodes) : ReachesRoot(nodes, i, Len(nodes))

\* the names of the nodes of a call tree, in pre-order
RECURSIVE TreeNames(_)
TreeNames(t) ==
    <<t.name>> \o Flatten([i \in 1..Len(t.children) |-> TreeNames(t.children[i])])

\* the <<parent name, child name>> pairs of a call tree
RECURSIVE TreeEdges(_)
TreeEdges(t) ==
    {<<t.name, t.children[i].name>> : i \in 1..Len(t.children)}
        \cup UNION {TreeEdges(t.children[i]) : i \in 1..Len(t.children)}

NameOfId(nodes, id) ==
    (CHOOSE n \in Range(nodes) : n.id = id).callFrame.functionName

\* C11: for a flat table whose nodes all declare their parent and have empty
\* children arrays (function names distinct), analysis returns a call tree that
\* holds every node of the table exactly once, the parentless node at the root
\* and every other node under the node of its declared parent.
C11_ParentOnlyTableGivesConnectedTree ==
    (Attributed /\ HasNodeTable /\ IsParentOnlyTable(InputNodes)) =>
        /\ pc # "threw"
        /\ Len(TreeNames(callTree)) = Len(InputNodes)
        /\ Range(TreeNames(callTree))
               = {InputNodes[i].callFrame.functionName : i \in 1..Len(InputNodes)}
        /\ \A i \in 1..Len(InputNodes) :
               LET node == InputNodes[i]
               IN IF node.parent = NoParent
                  THEN callTree.name = node.callFrame.functionName
                  ELSE <<NameOfId(InputNodes, node.parent), node.callFrame.functionName>>
                           \in TreeEdges(callTree)

\* C11 for tables that list the parentless node first
C11_RootFirstParentOnlyTable ==
    (HasNodeTable /\ Len(InputNodes) >= 1 /\ InputNodes[1].parent # NoParent)
        \/ C11_ParentOnlyTableGivesConnectedTree

(***************************************************************************)
(* Failures of the normalizer.                                             *)
(***************************************************************************)
Parsed == pc \in {"parsed", "attributed", "done", "threw"}

\* the exception is the InvalidEncoding error of parser.ts 39
IsInvalidEncoding(e) == e.name = "Error" /\ StartsWith(e.message, "Invalid JSON")

\* the exception is the MalformedProfile error that names the field
IsMalformedProfile(e, field) ==
    /\ e.name = "Error"
    /\ StartsWith(e.message, "Invalid profile: missing or invalid")
    /\ Includes(e.message, "\"" \o field \o "\"")
    /\ \A other \in {"nodes", "samples", "timeDeltas"} \ {field} :
           ~Includes(e.message, "\"" \o other \o "\"")

\* the input is JSON text of an object that is not a trace container
IsPlainObjectInput ==
    /\ raw.valid
    /\ raw.value.type = "object"
    /\ "traceEvents" \notin DOMAIN raw.value.fields

\* member name of the input object is not an array (nodes: and no legacy head
\* record supplies the table)
Lacks(name) ==
    /\ Get(raw.value, name).type # "array"
    /\ name = "nodes" =>
           ~(Truthy(Get(raw.value, "head")) /\ ~Truthy(Get(raw.value, "nodes")))

\* C12: text that is not JSON fails with the InvalidEncoding error; JSON of an
\* object that lacks the nodes, samples or timeDeltas array fails with the
\* MalformedProfile error naming the first lacking member in the order nodes,
\* samples, timeDeltas; an object lacking only samples fails naming "samples".
C12_ErrorsNameTheMissingField ==
    pc # "raw" =>
        /\ ~raw.valid => (pc = "failed" /\ IsInvalidEncoding(error))
        /\ IsPlainObjectInput =>
               /\ Lacks("nodes") => (pc = "failed" /\ IsMalformedProfile(error, "nodes"))
               /\ (~Lacks("nodes") /\ Lacks("samples")) =>
                      (pc = "failed" /\ IsMalformedProfile(error, "samples"))
               /\ (~Lacks("nodes") /\ ~Lacks("samples") /\ Lacks("timeDeltas")) =>
                      (pc = "failed" /\ IsMalformedProfile(error, "timeDeltas"))

\* an object that lacks samples and timeDeltas, but not nodes, failed naming
\* "samples"
C12_Witness ==
    /\ pc = "failed"
    /\ IsPlainObjectInput
    /\ ~Lacks("nodes") /\ Lacks("samples") /\ Lacks("timeDeltas")
    /\ error.message = "Invalid profile: missing or invalid \"samples\" array"

\* C13: on every input that is JSON, parseProfile returns a canonical profile
\* with nodes, samples and timeDeltas sequences or fails with the
\* MalformedProfile error naming a field; no other failure escapes.
C13_OnlyMalformedProfileEscapes ==
    (pc # "raw" /\ raw.valid) =>
        \/ Parsed /\ error = NoError
        \/ /\ pc = "failed"
           /\ \E field \in {"nodes", "samples", "timeDeltas"} : IsMalformedProfile(error, field)

(***************************************************************************)
(* Empty and zero-time profiles.                                           *)
(***************************************************************************)
\* the selfPercent and totalPercent of every node of a call tree are 0
RECURSIVE TreePercentsAreZero(_)
TreePercentsAreZero(t) ==
    /\ t.selfPercent = <<0, 1>>
    /\ t.totalPercent = <<0, 1>>
    /\ \A i \in 1..Len(t.children) : TreePercentsAreZero(t.children[i])

\* C14, for analyses that return: on a profile with an empty sample list or
\* zero total time, totalTime is 0, the mean sample interval is the number 0,
\* every selfPercent and totalPercent of the function statistics and of the
\* call tree is 0, and the hotspot list is empty for every threshold > 0.
C14_EmptyProfileDegradesToZero ==
    (pc = "done" /\ (Len(profile.samples) = 0 \/ result.totalTime = 0)) =>
        /\ result.totalTime = 0
        /\ result.sampleInterval = <<0, 1>>
        /\ \A i \in 1..Len(result.functionStats) :
               /\ result.functionStats[i].selfPercent = <<0, 1>>
               /\ result.functionStats[i].totalPercent = <<0, 1>>
        /\ TreePercentsAreZero(result.callTree)
        /\ options.hotspotThreshold > 0 => result.hotspots = <<>>

\* C14 without the sample interval: what holds of the code
C14_PercentagesDegradeToZero ==
    (pc = "done" /\ (Len(profile.samples) = 0 \/ result.totalTime = 0)) =>
        /\ result.totalTime = 0
        /\ Len(profile.samples) = 0 => result.sampleInterval = NaN
        /\ Len(profile.samples) > 0 => result.sampleInterval = <<0, 1>>
        /\ \A i \in 1..Len(result.functionStats) :
               /\ result.functionStats[i].selfPercent = <<0, 1>>
               /\ result.functionStats[i].totalPercent = <<0, 1>>
        /\ TreePercentsAreZero(result.callTree)
        /\ options.hotspotThreshold > 0 => result.hotspots = <<>>

(***************************************************************************)
(* Reconciliation of parent fields and children lists.                     *)
(***************************************************************************)
NoDuplicates(seq) == \A i, j \in 1..Len(seq) : seq[i] = seq[j] => i = j

\* the ids of the nodes of the input table that declare id as their parent
DeclaredChildren(id) ==
    {InputNodes[j].id : j \in {k \in 1..Len(InputNodes) : InputNodes[k].parent = id}}

\* the ids of the children list that input node i came with
OwnChildren(i) ==
    IF "children" \in DOMAIN InputNodes[i] THEN Range(InputNodes[i].children) ELSE {}

\* C16: after parsing a flat node table, node for node, the children list has
\* no duplicates and holds exactly the ids that declare the node as parent
\* together with the ids of the list the node came with.
C16_ChildrenAreUnionOfDeclaredAndOwn ==
    (Parsed /\ HasNodeTable) =>
        /\ Len(profile.nodes) = Len(InputNodes)
        /\ \A i \in 1..Len(InputNodes) :
               /\ profile.nodes[i].id = InputNodes[i].id
               /\ NoDuplicates(profile.nodes[i].children)
               /\ Range(profile.nodes[i].children) =
                      DeclaredChildren(InputNodes[i].id) \cup OwnChildren(i)

\* a parsed table with a node whose own list repeats an id, names an id that
\* does not declare the node as parent, and misses one that does
C16_Witness ==
    /\ Parsed /\ HasNodeTable
    /\ \E i \in 1..Len(InputNodes) :
           /\ "children" \in DOMAIN InputNodes[i]
           /\ ~NoDuplicates(InputNodes[i].children)
           /\ OwnChildren(i) \ DeclaredChildren(InputNodes[i].id) # {}
           /\ DeclaredChildren(InputNodes[i].id) \ OwnChildren(i) # {}
           /\ \E j \in 1..Len(InputNodes) : "children" \notin DOMAIN InputNodes[j]

(***************************************************************************)
(* Hotspot classification.                                                 *)
(***************************************************************************)
IsNativeUrl(u) ==
    \/ u = ""
    \/ StartsWith(u, "native ")
    \/ \E part \in {"(native)", "node_modules", "internal/"} : Includes(u, part)

IsAppUrl(u) ==
    \/ \E prefix \in {"http://", "https://", "file://"} : StartsWith(u, prefix)
    \/ \E separator \in {"/", "\\"} : Includes(u, separator)

\* C17: every hotspot has one of the types native, app, unknown: native if
\* its URL is empty, starts with 'native ' or contains '(native)',
\* 'node_modules' or 'internal/'; otherwise app if the URL starts with
\* http://, https:// or file:// or contains a path separator; otherwise
\* unknown.
C17_HotspotTypeFollowsUrl ==
    pc = "done" =>
        \A p \in 1..Len(result.hotspots) :
            LET h == result.hotspots[p]
            IN h.type = (CASE IsNativeUrl(h.url) -> "native"
                           [] ~IsNativeUrl(h.url) /\ IsAppUrl(h.url) -> "app"
                           [] OTHER -> "unknown")

\* a file:// URL inside node_modules is listed as native, next to an
\* application hotspot or one of unknown type
C17_Witness ==
    /\ pc = "done"
    /\ \E p, q \in 1..Len(result.hotspots) :
           /\ StartsWith(result.hotspots[p].url, "file://")
           /\ Includes(result.hotspots[p].url, "node_modules")
           /\ result.hotspots[p].type = "native"
           /\ result.hotspots[q].type \in {"app", "unknown"}

(***************************************************************************)
(* Call tree.                                                              *)
(***************************************************************************)
RawNode(id) == CHOOSE n \in Range(profile.nodes) : n.id = id

Reorderings(n) == {f \in [1..n -> 1..n] : \A i, j \in 1..n : f[i] = f[j] => i = j}

\* call-tree node t mirrors the raw node id: it carries its function name,
\* self time and total time; its children mirror the raw node's children, one
\* tree node per entry of the children list, by non-increasing total time,
\* children of equal total time in the order of the children list
RECURSIVE Mirrors(_, _)
Mirrors(t, id) ==
    LET node == RawNode(id)
        n == Len(node.children)
    IN /\ t.name = node.callFrame.functionName
       /\ t.selfTime = (IF id \in DOMAIN selfTimeMap THEN selfTimeMap[id] ELSE 0)
       /\ t.totalTime = (IF id \in DOMAIN totalTimeMap THEN totalTimeMap[id] ELSE 0)
       /\ Len(t.children) = n
       /\ \A k \in 1..(n - 1) : t.children[k].totalTime >= t.children[k + 1].totalTime
       /\ \E perm \in Reorderings(n) :
              /\ \A k \in 1..n : Mirrors(t.children[k], node.children[perm[k]])
              /\ \A k, l \in 1..n :
                     (k < l /\ t.children[k].totalTime = t.children[l].totalTime)
                         => perm[k] < perm[l]

\* C18: the call tree mirrors the raw nodes from its root down: every tree
\* node carries the self and total time of its raw node, children are ordered
\* by non-increasing totalTime with ties in the order of the raw children
\* list, and a call of a function by itself gives two tree nodes.
C18_CallTreeMirrorsRawNodes ==
    pc \in {"attributed", "done"} => Mirrors(callTree, profile.nodes[1].id)

\* the root's children are reordered, two of them tie on a positive total
\* time, and one of them calls itself: parent and child have the same
\* function and different self times
C18_Witness ==
    /\ pc = "done"
    /\ Len(callTree.children) = 3
    /\ callTree.children[1].name # RawNode(profile.nodes[1].children[1]).callFrame.functionName
    /\ \E k \in 1..2 :
           /\ callTree.children[k].totalTime = callTree.children[k + 1].totalTime
           /\ callTree.children[k].totalTime > 0
    /\ \E k \in 1..3 :
           LET c == callTree.children[k]
           IN /\ Len(c.children) = 1
              /\ c.children[1].name = c.name
              /\ c.children[1].url = c.url
              /\ c.children[1].line = c.line
              /\ c.children[1].selfTime # c.selfTime

(***************************************************************************)
(* Trace containers.                                                       *)
(***************************************************************************)
HasField(v, name) == v.type = "object" /\ name \in DOMAIN v.fields

\* the input is a sequence of events, bare or under traceEvents
IsTraceContainer ==
    /\ raw.valid
    /\ \/ raw.value.type = "array"
       \/ HasField(raw.value, "traceEvents") /\ raw.value.fields.traceEvents.type = "array"

ContainerEvents ==
    IF raw.value.type = "array" THEN raw.value.items
    ELSE raw.value.fields.traceEvents.items

HasPayload(e) == HasField(e, "args") /\ HasField(e.fields.args, "data")

CarriesCpuProfile(e) == HasPayload(e) /\ HasField(e.fields.args.fields.data, "cpuProfile")

NamedCpuProfile(e) == HasField(e, "name") /\ e.fields.name = [type |-> "string", value |-> "CpuProfile"]

MatchingEvents ==
    {k \in 1..Len(ContainerEvents) :
        NamedCpuProfile(ContainerEvents[k]) \/ CarriesCpuProfile(ContainerEvents[k])}

FirstMatch == CHOOSE k \in MatchingEvents : \A j \in MatchingEvents : k <= j

\* the profile object embedded in an event with a payload
EmbeddedOf(e) ==
    IF CarriesCpuProfile(e) THEN e.fields.args.fields.data.fields.cpuProfile
    ELSE e.fields.args.fields.data

\* a container of event records with a matching event that embeds a profile
HasEmbeddedProfile ==
    /\ IsTraceContainer
    /\ MatchingEvents # {}
    /\ \A j \in 1..FirstMatch : ContainerEvents[j].type = "object"
    /\ HasPayload(ContainerEvents[FirstMatch])

\* C19: parsing a trace container with a matching event gives the outcome of
\* parsing the profile object embedded in the first matching event: the same
\* canonical profile, or the same failure when that object is malformed.
C19_TraceContainerParsesAsEmbedded ==
    (pc # "raw" /\ HasEmbeddedProfile) =>
        LET direct == parseProfile(JsonText(EmbeddedOf(ContainerEvents[FirstMatch])))
        IN IF direct.thrown
           THEN pc = "failed" /\ error = direct
           ELSE pc # "failed" /\ profile = direct.profile

\* the first matching event follows an event that does not match, and a
\* later matching event embeds a profile that parses to a different result
C19_Witness ==
    /\ pc = "parsed"
    /\ HasEmbeddedProfile
    /\ FirstMatch > 1
    /\ \E k \in MatchingEvents :
           /\ k > FirstMatch
           /\ HasPayload(ContainerEvents[k])
           /\ LET other == parseProfile(JsonText(EmbeddedOf(ContainerEvents[k])))
              IN ~other.thrown /\ other.profile # profile

(***************************************************************************)
(* Frame of the analysis.                                                  *)
(***************************************************************************)
\* C20: no step of analyzeProfile changes the profile it was given (node
\* table, children lists and their order, samples, timeDeltas), and the step
\* that ranks the hotspots leaves the function statistics as they were and
\* hands them to the result as they are.
C20_AnalysisIsReadOnly ==
    [][/\ pc \in {"parsed", "attributed"} => profile' = profile
       /\ pc = "attributed" => (functionStats' = functionStats
                                /\ result'.functionStats = functionStats)]_vars

\* after an analysis that did sort: a children list of the profile is still
\* not in order of total time while the call tree is, and the hotspot list
\* is shorter than the function statistics and starts with another function
C20_Witness ==
    /\ pc = "done"
    /\ profile = parseProfile(raw).profile
    /\ \E i \in 1..Len(profile.nodes) :
           LET c == profile.nodes[i].children
           IN /\ Len(c) >= 2
              /\ MapGet0(totalTimeMap, c[1]) < MapGet0(totalTimeMap, c[2])
    /\ Len(callTree.children) >= 2
    /\ callTree.children[1].totalTime > callTree.children[2].totalTime
    /\ Len(result.hotspots) > 0
    /\ Len(result.hotspots) < Len(result.functionStats)
    /\ result.hotspots[1].key # result.functionStats[1].key
    /\ "type" \notin DOMAIN result.functionStats[1]

(***************************************************************************)
(* Conversions side by side.                                               *)
(***************************************************************************)
\* what a conversion of input r gives when it is the only one: the state in
\* which it ends, with the profile and the result it returned
RunAlone(r) ==
    LET p == parseProfile(r)
    IN IF p.thrown THEN [pc |-> "failed", profile |-> NoProfile, result |-> <<>>]
       ELSE LET a == analyzeProfile(p.profile, DefaultOptions)
            IN IF a.thrown THEN [pc |-> "threw", profile |-> p.profile, result |-> <<>>]
               ELSE [pc |-> "done", profile |-> p.profile, result |-> a.result]

Finished(c) == calls[c].pc \in {"failed", "threw", "done"}

\* C21: however the steps of the calls are interleaved, a call that has
\* finished ended as it ends when run alone on its input, with the same
\* canonical profile and the same analysis result.
C21_CallsDoNotInterfere ==
    \A c \in Calls :
        Finished(c) =>
            LET alone == RunAlone(calls[c].raw)
            IN /\ calls[c].pc = alone.pc
               /\ calls[c].profile = alone.profile
               /\ calls[c].result = alone.result

\* two different legacy trees of more than one record were flattened by two
\* calls and both calls have returned a result; each counter has counted the
\* records of its own tree
C21_Witness ==
    /\ \A c \in {1, 2} :
           /\ calls[c].pc = "done"
           /\ IsLegacyInput(calls[c].raw)
           /\ Len(calls[c].ids) >= 2
           /\ nextId[c] = Len(calls[c].ids) + 1
    /\ calls[1].raw # calls[2].raw
    /\ nextId[1] # nextId[2]

(***************************************************************************)
(* Totals of the result.                                                   *)
(***************************************************************************)
\* seq[1] + ... + seq[k]
RECURSIVE SumFirst(_, _)
SumFirst(seq, k) == IF k = 0 THEN 0 ELSE SumFirst(seq, k - 1) + seq[k]

\* C22: totalTime is the sum of timeDeltas, totalSamples the number of
\* samples, sampleInterval their quotient (for a profile with samples), and
\* startTime and endTime are those of the profile.
C22_ResultTotals ==
    pc = "done" =>
        /\ result.totalTime = SumFirst(profile.timeDeltas, Len(profile.timeDeltas))
        /\ result.totalSamples = Len(profile.samples)
        /\ Len(profile.samples) > 0 =>
               /\ result.sampleInterval[2] > 0
               /\ result.sampleInterval[1] * Len(profile.samples)
                      = result.totalTime * result.sampleInterval[2]
        /\ result.startTime = profile.startTime
        /\ result.endTime = profile.endTime

\* two samples, a sample interval that is not a whole number, and start and
\* end timestamps that differ
C22_Witness ==
    /\ pc = "done"
    /\ result.totalSamples = 2
    /\ result.totalTime = 3
    /\ result.sampleInterval = <<3, 2>>
    /\ result.startTime = 7
    /\ result.endTime = 12

(***************************************************************************)
(* Function identity.                                                      *)
(***************************************************************************)
\* the four fields of a call frame that identify the function
Identity(cf) == <<cf.functionName, cf.url, cf.lineNumber, cf.columnNumber>>

NodesOfFunction(identity) ==
    {i \in 1..Len(profile.nodes) : Identity(profile.nodes[i].callFrame) = identity}

\* C23: there is one FunctionStats record per combination of function name,
\* URL, line and column met in the node table, and the record of a
\* combination counts the nodes of that combination and no other: two nodes
\* share a record exactly when their frames agree on the four fields.
C23_OneRecordPerFunctionIdentity ==
    (pc \in {"attributed", "done"}) =>
        /\ Len(functionStats)
               = Cardinality({Identity(profile.nodes[i].callFrame) : i \in 1..Len(profile.nodes)})
        /\ \A k \in 1..Len(functionStats) :
               LET stats == functionStats[k]
                   own == NodesOfFunction(<<stats.name, stats.url, stats.line, stats.column>>)
               IN stats.hitCount = SumOverNodes(profile.nodes, hitCountMap, own)

\* the same on frames without the character @ in name and URL: what holds of
\* the code
C23_OneRecordPerIdentityWithoutSeparator ==
    (/\ pc \in {"attributed", "done"}
     /\ \A i \in 1..Len(profile.nodes) :
            /\ ~Includes(profile.nodes[i].callFrame.functionName, "@")
            /\ ~Includes(profile.nodes[i].callFrame.url, "@")) =>
        /\ Len(functionStats)
               = Cardinality({Identity(profile.nodes[i].callFrame) : i \in 1..Len(profile.nodes)})
        /\ \A k \in 1..Len(functionStats) :
               LET stats == functionStats[k]
                   own == NodesOfFunction(<<stats.name, stats.url, stats.line, stats.column>>)
               IN stats.hitCount = SumOverNodes(profile.nodes, hitCountMap, own)

(***************************************************************************)
(* Total time of a node.                                                   *)
(***************************************************************************)
ChildrenOfId(id) ==
    UNION {Range(profile.nodes[i].children) :
               i \in {k \in 1..Len(profile.nodes) : profile.nodes[k].id = id}}

\* the ids reached from the ids in S by at most k steps along children lists
RECURSIVE ReachedFrom(_, _)
ReachedFrom(S, k) ==
    IF k = 0 THEN S ELSE ReachedFrom(S \cup UNION {ChildrenOfId(id) : id \in S}, k - 1)

\* no node of the table is its own descendant
ChildrenAreAcyclic ==
    \A id \in TableIds : id \notin ReachedFrom(ChildrenOfId(id), Len(profile.nodes))

\* total(node) = self(node) + the sum of total(child) over the children list
TotalIsSelfPlusChildren(node) ==
    MapGet0(totalTimeMap, node.id)
        = MapGet0(selfTimeMap, node.id)
              + SumFirst([k \in 1..Len(node.children) |-> MapGet0(totalTimeMap, node.children[k])],
                         Len(node.children))

\* the ids for which a total was computed, one entry per computation
TotalsComputed ==
    totalTimeComputations(profile.nodes, buildNodeMap(profile.nodes, <<>>), selfTimeMap)

\* C24 as stated: for every node of the table of every canonical profile,
\* total(node) = self(node) + the sum of total(child) over its children
\* list, and no total is computed twice.
C24_TotalIsSelfPlusChildrenTotals ==
    Attributed =>
        /\ \A i \in 1..Len(profile.nodes) : TotalIsSelfPlusChildren(profile.nodes[i])
        /\ NoDuplicates(TotalsComputed)

\* C24 amended: the equation holds for every node when no node is its own
\* descendant; in every table, cyclic or not, the total of every node is
\* computed exactly once.
C24_TotalIsSelfPlusChildrenTotalsWhenAcyclic ==
    Attributed =>
        /\ ChildrenAreAcyclic =>
               \A i \in 1..Len(profile.nodes) : TotalIsSelfPlusChildren(profile.nodes[i])
        /\ NoDuplicates(TotalsComputed)
        /\ Range(TotalsComputed) = TableIds

\* an acyclic table in which a node with a positive total is a child of two
\* nodes, so the traversal reaches it twice
C24_Witness ==
    /\ pc = "done"
    /\ ChildrenAreAcyclic
    /\ \E i, j \in 1..Len(profile.nodes) :
           /\ i # j
           /\ \E id \in Range(profile.nodes[i].children) \cap Range(profile.nodes[j].children) :
                  /\ id \in TableIds
                  /\ MapGet0(totalTimeMap, id) > 0

(***************************************************************************)
(* Root of the call tree.                                                  *)
(***************************************************************************)
\* the positions of the table nodes that have no parent
ParentlessNodes == {i \in 1..Len(profile.nodes) : profile.nodes[i].parent = NoParent}

\* C25: when the table has one node without parent, the call tree is the
\* tree of that node, at whatever position of the table the node is.
C25_CallTreeRootedAtParentlessNode ==
    (pc \in {"attributed", "done"} /\ Cardinality(ParentlessNodes) = 1) =>
        \E i \in ParentlessNodes : Mirrors(callTree, profile.nodes[i].id)

\* the same for tables whose first node is the one without parent: what
\* holds of the code
C25_CallTreeRootedAtFirstParentlessNode ==
    (pc \in {"attributed", "done"} /\ ParentlessNodes = {1}) =>
        Mirrors(callTree, profile.nodes[1].id)

(***************************************************************************)
(* References between the nodes of a canonical profile.                    *)
(***************************************************************************)
\* every id in a children list or a parent field is the id of a table node
ReferencesResolve(nodes) ==
    LET ids == {nodes[i].id : i \in 1..Len(nodes)}
    IN \A i \in 1..Len(nodes) :
           /\ Range(nodes[i].children) \subseteq ids
           /\ nodes[i].parent # NoParent => nodes[i].parent \in ids

\* C26: in every canonical profile that parseProfile returns, every id in a
\* children list or a parent field is the id of a node of the table.
C26_ReferencesResolveInCanonicalProfile ==
    pc = "parsed" => ReferencesResolve(profile.nodes)

\* the same for inputs whose references resolve already, and for legacy
\* records: what holds of the code
C26_ResolvedReferencesArePreserved ==
    (/\ pc = "parsed"
     /\ \/ IsLegacyInput(raw)
        \/ /\ HasNodeTable
           /\ \A i \in 1..Len(InputNodes) :
                  /\ OwnChildren(i) \subseteq {InputNodes[j].id : j \in 1..Len(InputNodes)}
                  /\ InputNodes[i].parent # NoParent =>
                         InputNodes[i].parent \in {InputNodes[j].id : j \in 1..Len(InputNodes)})
        => ReferencesResolve(profile.nodes)

(***************************************************************************)
(* Termination of the analysis.                                            *)
(***************************************************************************)
\* analyzeProfile was called and has returned or thrown
Analyzed == pc \in {"attributed", "done", "threw"}

\* C27: on a canonical profile with a non-empty table whose references
\* resolve, analyzeProfile ends with a result and not with an exception,
\* also when the children pointers contain a cycle or share a child.
C27_AnalysisEndsWithResult ==
    (Analyzed /\ Len(profile.nodes) > 0 /\ ReferencesResolve(profile.nodes)) =>
        pc # "threw"

\* the same for tables without a cycle, shared children included, and the
\* total-time traversal in every case: what holds of the code
C27_AnalysisEndsWithResultWhenAcyclic ==
    (Analyzed /\ Len(profile.nodes) > 0 /\ ReferencesResolve(profile.nodes)) =>
        /\ ChildrenAreAcyclic => pc # "threw"
        /\ Range(TotalsComputed) = TableIds

(***************************************************************************)
(* Call frames of a flattened legacy record.                               *)
(***************************************************************************)
\* the records of a legacy tree in the order in which traverse meets them
RECURSIVE RecordsInPreorder(_)
RECURSIVE RecordsInPreorderOfAll(_)
RecordsInPreorderOfAll(children) ==
    IF children = <<>> THEN <<>>
    ELSE RecordsInPreorder(Head(children)) \o RecordsInPreorderOfAll(Tail(children))

RecordsInPreorder(rec) ==
    <<rec>> \o RecordsInPreorderOfAll(IF "children" \in DOMAIN rec THEN rec.children ELSE <<>>)

\* the frame fields as the record gives them, inline or embedded
GivenFrame(rec) == IF "callFrame" \in DOMAIN rec THEN rec.callFrame ELSE rec

\* frame cf is the frame of record rec with its gaps filled
IsDefaultedFrameOf(cf, rec) ==
    LET given == GivenFrame(rec)
    IN /\ {"functionName", "url", "scriptId"} \subseteq DOMAIN cf
       /\ cf.functionName = (IF "functionName" \in DOMAIN given THEN given.functionName
                              ELSE "(unknown)")
       /\ cf.url = (IF "url" \in DOMAIN given THEN given.url ELSE "")
       /\ cf.scriptId = (IF "callFrame" \in DOMAIN rec /\ "scriptId" \in DOMAIN given
                         THEN given.scriptId ELSE "0")

LegacyRecordOfNode(node) == RecordsInPreorder(raw.value.fields.head.fields)[node.id]

\* C28: every node of the table flattened from a legacy record has a call
\* frame with function name, URL and script id, the missing ones defaulted
\* to '(unknown)', '' and '0', for inline fields and for an embedded
\* callFrame alike.
C28_MissingFrameFieldsAreDefaulted ==
    (pc = "parsed" /\ IsLegacyInput(raw)) =>
        \A i \in 1..Len(profile.nodes) :
            IsDefaultedFrameOf(profile.nodes[i].callFrame, LegacyRecordOfNode(profile.nodes[i]))

\* the same for the records that carry their frame fields inline: what
\* holds of the code
C28_MissingInlineFieldsAreDefaulted ==
    (pc = "parsed" /\ IsLegacyInput(raw)) =>
        \A i \in 1..Len(profile.nodes) :
            LET rec == LegacyRecordOfNode(profile.nodes[i])
            IN "callFrame" \notin DOMAIN rec =>
                   IsDefaultedFrameOf(profile.nodes[i].callFrame, rec)

(***************************************************************************)
(* Callers and callees.                                                    *)
(***************************************************************************)
\* some node of the function with key g is in the children list of some node
\* of the function with key f
HasChildOfFunction(f, g) ==
    \E i, j \in 1..Len(profile.nodes) :
        /\ FunctionKey(profile.nodes[i].callFrame) = f
        /\ FunctionKey(profile.nodes[j].callFrame) = g
        /\ profile.nodes[j].id \in Range(profile.nodes[i].children)

\* C29: for any two functions f and g, g is among the callees of f exactly
\* when f is among the callers of g, and exactly when some node of g is a
\* child of some node of f.
C29_CallersMirrorCallees ==
    (pc \in {"attributed", "done"}) =>
        \A a, b \in 1..Len(functionStats) :
            LET f == functionStats[a]
                g == functionStats[b]
            IN /\ (g.key \in Range(f.callees)) <=> (f.key \in Range(g.callers))
               /\ (g.key \in Range(f.callees)) <=> HasChildOfFunction(f.key, g.key)

\* the children lists and the parent fields of the canonical profile agree
ParentsMatchChildren ==
    \A i, j \in 1..Len(profile.nodes) :
        (profile.nodes[j].id \in Range(profile.nodes[i].children))
            <=> (profile.nodes[j].parent = profile.nodes[i].id)

\* the same for profiles whose parent fields and children lists agree, and
\* the callees in every profile whose references resolve: what holds of the code
C29_CallersMirrorCalleesWhenParentsGiven ==
    (pc \in {"attributed", "done"}) =>
        \A a, b \in 1..Len(functionStats) :
            LET f == functionStats[a]
                g == functionStats[b]
            IN /\ ParentsMatchChildren =>
                      (g.key \in Range(f.callees)) <=> (f.key \in Range(g.callers))
               /\ (g.key \in Range(f.callees)) <=> HasChildOfFunction(f.key, g.key)

(***************************************************************************)
(* Hit counts.                                                             *)
(***************************************************************************)
\* the number of samples that name a node of the function with the given key
SamplesOfFunction(key) ==
    Cardinality({i \in 1..Len(profile.samples) :
                    \E j \in 1..Len(profile.nodes) :
                        /\ profile.nodes[j].id = profile.samples[i]
                        /\ FunctionKey(profile.nodes[j].callFrame) = key})

HitCountsOfAll == SumSeq([a \in 1..Len(functionStats) |-> functionStats[a].hitCount])

SamplesInTable ==
    Cardinality({i \in 1..Len(profile.samples) : profile.samples[i] \in TableIds})

\* C30: each function's hitCount is the number of samples naming one of its
\* nodes, whatever hitCount the nodes declare, and the hit counts of all
\* functions sum to result.totalSamples.
C30_HitCountsComeFromSamples ==
    pc = "done" =>
        /\ \A a \in 1..Len(functionStats) :
               functionStats[a].hitCount = SamplesOfFunction(functionStats[a].key)
        /\ HitCountsOfAll = result.totalSamples

\* C30 amended: each function's hitCount is the number of samples naming one
\* of its nodes, whatever hitCount the nodes declare, and the hit counts sum
\* to the number of samples that name a node of the table, which is
\* totalSamples when every sample does.
C30_HitCountsComeFromSamplesInTable ==
    pc = "done" =>
        /\ \A a \in 1..Len(functionStats) :
               functionStats[a].hitCount = SamplesOfFunction(functionStats[a].key)
        /\ HitCountsOfAll = SamplesInTable
        /\ SamplesNameTableNodes => HitCountsOfAll = result.totalSamples

\* both samples name the child, which declares no hit and whose function has
\* no other node, and the root declares two hits and is never sampled
C30_Witness ==
    /\ pc = "done"
    /\ SamplesNameTableNodes
    /\ Len(profile.nodes) = 2
    /\ "hitCount" \in DOMAIN profile.nodes[1]
    /\ profile.nodes[1].hitCount = 2
    /\ profile.nodes[2].hitCount = 0
    /\ profile.samples = <<2, 2>>
    /\ Len(functionStats) = 2
    /\ \E a, b \in 1..2 :
           /\ functionStats[a].key = FunctionKey(profile.nodes[1].callFrame)
           /\ functionStats[a].hitCount = 0
           /\ functionStats[b].key = FunctionKey(profile.nodes[2].callFrame)
           /\ functionStats[b].hitCount = 2
    /\ result.totalSamples = 2

====
